---- MODULE Spec2Model ----
(***************************************************************************)
(* INTRA-HUB: the identity reconciler of sync/notion_sync.py               *)
(* (NotionSync.process_pages and the helpers it calls), as a state machine *)
(* over the persisted local store (doc_counter.json, doc_mapping.json) and *)
(* the remote DOC_ID fields; and three parts of renderer/html_renderer.py, *)
(* each with a specification of its own in which the other parts rest:     *)
(* the content renderer (SpecRender), the page assembler (SpecAssemble)    *)
(* and the index builder (SpecIndex).                                      *)
(*                                                                         *)
(* Strings are sequences of one-character strings, so that formatting      *)
(* (generate_doc_id) and parsing (split('-')[1], int) are computed.        *)
(*                                                                         *)
(* Modelling decisions:                                                    *)
(*  - each json.dump of a store file is one step (a file is either its old *)
(*    or its new content); the process may stop between any two steps;     *)
(*  - the DOC_ID property is rich_text (the type update_notion_doc_id      *)
(*    writes), so an absent and an empty field both extract to a falsy     *)
(*    value, written Empty;                                                *)
(*  - the page ids of one batch are pairwise distinct;                     *)
(*  - the id alphabet is D, O, C, X, '-' and the decimal digits, so int()  *)
(*    accepts exactly the non-empty digit strings.                         *)
(***************************************************************************)
EXTENDS Integers, Sequences, FiniteSets, TLC

\* ---- bounds of the model ----
NumPages == 2
MaxExternalOrd == 1
MaxFaults == 1
MaxCrashes == 1

\* ---- program constants ----
PadWidth == 4

Pages == 1..NumPages

Empty == <<>>

\* ------------------------------------------------------------------
\* Strings
\* ------------------------------------------------------------------
DigitChars == <<"0", "1", "2", "3", "4", "5", "6", "7", "8", "9">>

IsDigit(c) == \E d \in 1..Len(DigitChars) : DigitChars[d] = c

DigitVal(c) == (CHOOSE d \in 1..Len(DigitChars) : DigitChars[d] = c) - 1

RECURSIVE Digits(_)
Digits(n) ==
    IF n < 10 THEN <<DigitChars[n + 1]>>
    ELSE Digits(n \div 10) \o <<DigitChars[(n % 10) + 1]>>

\* variant: the width is a maximum too (the leading digits are cut off)
ZeroPad_Truncate(s, w) ==
    IF Len(s) >= w THEN SubSeq(s, Len(s) - w + 1, Len(s))
    ELSE [k \in 1..(w - Len(s)) |-> "0"] \o s

\* format spec 04d: left-pad with zeros to the width, never truncate
ZeroPad(s, w) ==
    IF Len(s) >= w THEN s ELSE [k \in 1..(w - Len(s)) |-> "0"] \o s

\* f"DOC-{counter:04d}"
generate_doc_id(n) == <<"D", "O", "C", "-">> \o ZeroPad(Digits(n), PadWidth)

\* str.split(sep): the segments between the occurrences of sep
RECURSIVE Split(_, _)
Split(s, sep) ==
    IF \A k \in 1..Len(s) : s[k] # sep THEN <<s>>
    ELSE LET k == CHOOSE k \in 1..Len(s) :
                      s[k] = sep /\ \A j \in 1..(k - 1) : s[j] # sep
         IN  <<SubSeq(s, 1, k - 1)>> \o Split(SubSeq(s, k + 1, Len(s)), sep)

\* int(s) raises ValueError unless s is a non-empty digit string
IntOk(s) == Len(s) > 0 /\ \A k \in 1..Len(s) : IsDigit(s[k])

RECURSIVE IntValue(_)
IntValue(s) ==
    IF Len(s) = 0 THEN 0
    ELSE IntValue(SubSeq(s, 1, Len(s) - 1)) * 10 + DigitVal(s[Len(s)])

\* int(existing_doc_id.split('-')[1]) inside try/except: ok = FALSE when
\* the index or the conversion raises
ParseOrdinal(s) ==
    LET parts == Split(s, "-")
    IN  IF Len(parts) < 2 THEN [ok |-> FALSE, val |-> 0]
        ELSE IF ~IntOk(parts[2]) THEN [ok |-> FALSE, val |-> 0]
        ELSE [ok |-> TRUE, val |-> IntValue(parts[2])]

Max(a, b) == IF a >= b THEN a ELSE b

\* ------------------------------------------------------------------
\* Values the remote side can hold that this system did not write
\* ------------------------------------------------------------------
ExternalIds ==
    { generate_doc_id(n) : n \in 1..MaxExternalOrd }
        \cup { <<"D", "O", "C", "-">> \o Digits(MaxExternalOrd),
               <<"D", "O", "C", "X">> }

Faults == {"none", "early", "late"}

VARIABLES
    counter_file,       \* doc_counter.json: <<>> when absent, else <<n>>
    doc_mapping_file,   \* doc_mapping.json: <<>> when absent, else <<m>>
    remote,             \* DOC_ID field of every remote page
    pc,                 \* position of the single sync process
    pages,              \* the batch handed to process_pages
    i,                  \* index of the next page of the loop
    counter,            \* local of process_pages
    doc_mapping,        \* local of process_pages
    processed_docs,     \* local of process_pages
    published_docs,     \* local of process_pages
    updates,            \* calls of update_notion_doc_id made by this run
    loaded,             \* the pair loaded at lines 153-154 of this run
    first,              \* result of the previous run when this run repeats it
    crashes,            \* number of times the process has stopped mid-run
    blocks,             \* _render_blocks_to_html: the block list it is given
    bi,                 \* _render_blocks_to_html: index of the next block
    html_parts,         \* _render_blocks_to_html: local
    current_list_type,  \* _render_blocks_to_html: local
    current_list_items, \* _render_blocks_to_html: local
    content_html,       \* _render_blocks_to_html: the fragment returned
    rpc,                \* _render_blocks_to_html: "off", "loop" or "done"
    args,               \* _build_document_page: its arguments
    html,               \* _build_document_page: the page being built
    step,               \* _build_document_page: replace calls applied
    apc,                \* _build_document_page: "off", "subst" or "done"
    published_file,     \* published_documents.json: <<>> or <<docs>>
    public_files,       \* the listing pages under public/, by file name
    docs,               \* generate_homepage: local
    total_pages,        \* generate_homepage: local
    page_num,           \* generate_homepage: local
    ipc,                \* generate_homepage: "off", "start", "pages", "done"
    ord_pair,           \* round trip: the two ordinals formatted
    ids,                \* round trip: <<>> or the two ids formatted from them
    parsed,             \* round trip: <<>> or what the reconciler parses from the ids
    tpc,                \* round trip: "off", "format", "parse" or "done"
    chain,              \* fetch_all_pages: the pages of items the remote serves
    all_pages,          \* fetch_all_pages: local
    has_more,           \* fetch_all_pages: local
    start_cursor,       \* fetch_all_pages: local, 0 for None
    queries,            \* fetch_all_pages: the cursors of the queries issued
    fpc,                \* fetch_all_pages: "off", "loop", "returned" or "raised"
    tree,               \* the remote's block trees: children of every block, page size
    cdocs,              \* fetch_and_cache_content: the published_docs argument
    ci,                 \* fetch_and_cache_content: index of the next document
    cache,              \* the snapshots under cache/, by doc_id
    stack,              \* fetch_page_blocks: the frames of the calls in progress
    ret,                \* fetch_page_blocks: what the outermost call returned
    list_calls,         \* the blocks.children.list calls made, in order
    cpc,                \* fetch_and_cache_content: "off", "docs", "blocks", "cache", "done"
    publish,            \* the PUBLISH checkbox of every remote page
    mpc,                \* main: the phase it is in, or "idle"
    exit_code,          \* main: -1 while no run has ended, else the last exit code
    trace,              \* main: the phases of this run that have finished
    runs,               \* number of pipeline runs started
    fatals,             \* number of top-level errors so far
    rec_faults,         \* number of per-record failures so far
    ri,                 \* index of the next record in the cache and the render loop
    success_count,      \* render_all_documents: local
    error_count,        \* render_all_documents: local
    docs_dir,           \* the document pages under public/documents/, by file name
    search_index,       \* search-index.json: <<>> or <<entries>>
    inst,               \* per pipeline instance: position, locals and batch of process_pages
    homepage_runs       \* number of calls of generate_homepage that were followed by another

reconciler_vars ==
    <<counter_file, doc_mapping_file, remote, pc, pages, i, counter,
      doc_mapping, processed_docs, published_docs, updates, loaded, first,
      crashes>>

renderer_vars ==
    <<blocks, bi, html_parts, current_list_type, current_list_items,
      content_html, rpc>>

assembler_vars == <<args, html, step, apc>>

index_vars ==
    <<published_file, public_files, docs, total_pages, page_num, ipc>>

roundtrip_vars == <<ord_pair, ids, parsed, tpc>>

fetch_vars == <<chain, all_pages, has_more, start_cursor, queries, fpc>>

content_vars == <<tree, cdocs, ci, cache, stack, ret, list_calls, cpc>>

pipeline_vars ==
    <<publish, mpc, exit_code, trace, runs, fatals, rec_faults, ri,
      success_count, error_count, docs_dir, search_index>>

race_vars == <<inst>>

regen_vars == <<homepage_runs>>

outside_reconciler == <<renderer_vars, assembler_vars, index_vars,
    roundtrip_vars,
    fetch_vars,
    content_vars,
    pipeline_vars,
    race_vars,
    regen_vars>>

outside_renderer == <<reconciler_vars, assembler_vars, index_vars,
    roundtrip_vars,
    fetch_vars,
    content_vars,
    pipeline_vars,
    race_vars,
    regen_vars>>

outside_assembler == <<reconciler_vars, renderer_vars, index_vars,
    roundtrip_vars,
    fetch_vars,
    content_vars,
    pipeline_vars,
    race_vars,
    regen_vars>>

outside_index == <<reconciler_vars, renderer_vars, assembler_vars,
    roundtrip_vars,
    fetch_vars,
    content_vars,
    pipeline_vars,
    race_vars,
    regen_vars>>

outside_roundtrip ==
    <<reconciler_vars, renderer_vars, assembler_vars, index_vars,
    fetch_vars,
    content_vars,
    pipeline_vars,
    race_vars,
    regen_vars>>

outside_fetch ==
    <<reconciler_vars, renderer_vars, assembler_vars, index_vars, roundtrip_vars,
    content_vars,
    pipeline_vars,
    race_vars,
    regen_vars>>

outside_content ==
    <<reconciler_vars, renderer_vars, assembler_vars, index_vars, roundtrip_vars, fetch_vars,
    pipeline_vars,
    race_vars,
    regen_vars>>

\* what a pipeline run shares with the parts above: the store files, the
\* remote fields, the fetched batch, the published list, the manifest, the
\* listing pages and the snapshots; the rest of their state rests
outside_pipeline ==
    <<pc, i, counter, doc_mapping, updates, loaded, first,
      crashes, renderer_vars, assembler_vars, docs, total_pages, page_num,
      ipc, roundtrip_vars, fetch_vars, tree, cdocs, ci, stack, ret,
      list_calls, cpc,
    race_vars,
    regen_vars>>

outside_race ==
    <<pc, pages, i, counter, doc_mapping, processed_docs, published_docs,
      updates, loaded, first, crashes, renderer_vars, assembler_vars,
      index_vars, roundtrip_vars, fetch_vars, content_vars, pipeline_vars,
    regen_vars>>

outside_regen ==
    <<reconciler_vars, renderer_vars, assembler_vars, roundtrip_vars,
      fetch_vars, content_vars, pipeline_vars, race_vars>>

vars == <<reconciler_vars, renderer_vars, assembler_vars, index_vars,
    roundtrip_vars,
    fetch_vars,
    content_vars,
    pipeline_vars,
    race_vars,
    regen_vars>>

EmptyMapping == [p \in {} |-> Empty]

load_counter == IF counter_file = <<>> THEN 0 ELSE counter_file[1]

load_doc_mapping ==
    IF doc_mapping_file = <<>> THEN EmptyMapping ELSE doc_mapping_file[1]

ReconcilerInit ==
    /\ counter_file = <<>>
    /\ doc_mapping_file = <<>>
    /\ remote = [p \in Pages |-> Empty]
    /\ pc = "idle"
    /\ pages = <<>>
    /\ i = 1
    /\ counter = 0
    /\ doc_mapping = EmptyMapping
    /\ processed_docs = <<>>
    /\ published_docs = <<>>
    /\ updates = <<>>
    /\ loaded = [counter |-> 0, mapping |-> EmptyMapping]
    /\ first = <<>>
    /\ crashes = 0

\* the renderer is not running
RendererOff ==
    /\ blocks = <<>>
    /\ bi = 1
    /\ html_parts = <<>>
    /\ current_list_type = "None"
    /\ current_list_items = <<>>
    /\ content_html = <<>>
    /\ rpc = "off"

\* the page assembler is not running
AssemblerOff ==
    /\ args = [ doc_id |-> <<>>, title |-> <<>>, barcode_html |-> <<>>,
                property_html |-> <<>>, content_html |-> <<>>,
                css |-> <<>>, views |-> <<>>, downloads |-> <<>>,
                shares |-> <<>>, timestamp |-> <<>> ]
    /\ html = <<>>
    /\ step = 0
    /\ apc = "off"

\* the index builder is not running, public/ holds no listing page
IndexOff ==
    /\ published_file = <<>>
    /\ public_files = <<>>
    /\ docs = <<>>
    /\ total_pages = 0
    /\ page_num = 1
    /\ ipc = "off"

\* no id is being formatted
RoundTripOff ==
    /\ ord_pair = <<1, 1>>
    /\ ids = <<>>
    /\ parsed = <<>>
    /\ tpc = "off"

\* no collection fetch is running
FetchOff ==
    /\ chain = <<>>
    /\ all_pages = <<>>
    /\ has_more = TRUE
    /\ start_cursor = 0
    /\ queries = <<>>
    /\ fpc = "off"

\* no content fetch is running
ContentOff ==
    /\ tree = [kids |-> <<>>, psize |-> 1]
    /\ cdocs = <<>>
    /\ ci = 1
    /\ cache = <<>>
    /\ stack = <<>>
    /\ ret = <<>>
    /\ list_calls = <<>>
    /\ cpc = "off"

\* no pipeline run has been started
PipelineOff ==
    /\ publish = [p \in Pages |-> FALSE]
    /\ mpc = "idle"
    /\ exit_code = -1
    /\ trace = <<>>
    /\ runs = 0
    /\ fatals = 0
    /\ rec_faults = 0
    /\ ri = 1
    /\ success_count = 0
    /\ error_count = 0
    /\ docs_dir = <<>>
    /\ search_index = <<>>

\* no second instance is running
RaceOff ==
    inst = <<>>

\* generate_homepage has not been called a second time
RegenOff ==
    homepage_runs = 0

Init == ReconcilerInit /\ RendererOff /\ AssemblerOff /\ IndexOff /\ RoundTripOff /\ FetchOff /\ ContentOff /\ PipelineOff /\ RaceOff /\ RegenOff


\* ------------------------------------------------------------------
\* The batch: what fetch_all_pages returned, as process_pages reads it.
\* fault is where processing of the page raises inside the try of the
\* loop: "early" before the DOC_ID decision (lines 161-169), "late" in
\* the property extraction after it (lines 208-212), "none" nowhere.
\* ------------------------------------------------------------------
PageRecs(rem) ==
    { [id |-> p, doc_id |-> rem[p], publish |-> b, fault |-> f] :
        p \in Pages, b \in BOOLEAN, f \in Faults }

Batches(rem) ==
    { b \in UNION { [1..n -> PageRecs(rem)] : n \in 0..NumPages } :
        /\ \A j, k \in 1..Len(b) : j # k => b[j].id # b[k].id
        /\ Cardinality({ k \in 1..Len(b) : b[k].fault # "none" }) <= MaxFaults }

UNASSIGNED == <<"U", "N", "A", "S", "S", "I", "G", "N", "E", "D">>

\* doc_mapping[k] = v
Put(m, k, v) == [x \in DOMAIN m \cup {k} |-> IF x = k THEN v ELSE m[x]]

\* doc_mapping.get(page_id, 'UNASSIGNED')
Get(m, k) == IF k \in DOMAIN m THEN m[k] ELSE UNASSIGNED

\* variant: the first test never matches (no id is ever minted)
Branch_NoMint(page_id, existing_doc_id, m) ==
    IF existing_doc_id # Empty /\ page_id \notin DOMAIN m THEN "adopt"
    ELSE IF page_id \in DOMAIN m /\ existing_doc_id = Empty THEN "repair"
    ELSE "none"

\* variant: the first test forgets the local mapping
Branch_MintWhenRemoteEmpty(page_id, existing_doc_id, m) ==
    IF existing_doc_id = Empty THEN "mint"
    ELSE IF page_id \notin DOMAIN m THEN "adopt"
    ELSE "none"

\* variant: the second test forgets the local mapping (remote wins)
Branch_AdoptWhenRemotePresent(page_id, existing_doc_id, m) ==
    IF page_id \notin DOMAIN m /\ existing_doc_id = Empty THEN "mint"
    ELSE IF existing_doc_id # Empty THEN "adopt"
    ELSE IF page_id \in DOMAIN m /\ existing_doc_id = Empty THEN "repair"
    ELSE "none"

\* variant: the first test forgets the remote field (a record without a
\* mapping entry always gets a fresh id)
Branch_MintWhenUnmapped(page_id, existing_doc_id, m) ==
    IF page_id \notin DOMAIN m THEN "mint"
    ELSE IF existing_doc_id = Empty THEN "repair"
    ELSE "none"

\* the if / elif / elif cascade of lines 172, 180, 189
Branch(page_id, existing_doc_id, m) ==
    IF page_id \notin DOMAIN m /\ existing_doc_id = Empty THEN "mint"
    ELSE IF existing_doc_id # Empty /\ page_id \notin DOMAIN m THEN "adopt"
    ELSE IF page_id \in DOMAIN m /\ existing_doc_id = Empty THEN "repair"
    ELSE "none"

\* variant: adopting does not advance the counter
NextCounter_NoAdvance(branch, c, existing_doc_id) ==
    CASE branch = "mint" -> c + 1
      [] OTHER -> c

\* variant: adopting assigns the ordinal instead of taking the maximum
NextCounter_AdoptAssign(branch, c, existing_doc_id) ==
    CASE branch = "mint" -> c + 1
      [] branch = "adopt" ->
            LET o == ParseOrdinal(existing_doc_id)
            IN  IF o.ok THEN o.val ELSE c
      [] OTHER -> c

\* counter after the branch: lines 174 and 184-188
NextCounter(branch, c, existing_doc_id) ==
    CASE branch = "mint" -> c + 1
      [] branch = "adopt" ->
            LET o == ParseOrdinal(existing_doc_id)
            IN  IF o.ok THEN Max(c, o.val) ELSE c
      [] OTHER -> c

\* variant: a non-empty remote value overwrites the local entry
NextMapping_RemoteWins(branch, m, c1, page_id, existing_doc_id) ==
    CASE branch = "mint" -> Put(m, page_id, generate_doc_id(c1))
      [] existing_doc_id # Empty -> Put(m, page_id, existing_doc_id)
      [] OTHER -> m

\* variant: the id is formatted from the counter before the increment
NextMapping_StaleCounter(branch, m, c1, page_id, existing_doc_id) ==
    CASE branch = "mint" -> Put(m, page_id, generate_doc_id(c1 - 1))
      [] branch = "adopt" -> Put(m, page_id, existing_doc_id)
      [] OTHER -> m

\* doc_mapping after the branch: lines 175-176 and 182
NextMapping(branch, m, c1, page_id, existing_doc_id) ==
    CASE branch = "mint" -> Put(m, page_id, generate_doc_id(c1))
      [] branch = "adopt" -> Put(m, page_id, existing_doc_id)
      [] OTHER -> m

\* variant: only a fresh id is written back
UpdateCalls_MintOnly(branch, m1, page_id) ==
    IF branch = "mint"
    THEN <<[page_id |-> page_id, doc_id |-> m1[page_id]]>>
    ELSE <<>>

\* variant: the id is written back whenever the remote value is not adopted
UpdateCalls_AlwaysPush(branch, m1, page_id) ==
    IF branch \in {"mint", "repair", "none"}
    THEN <<[page_id |-> page_id, doc_id |-> m1[page_id]]>>
    ELSE <<>>

\* the calls of update_notion_doc_id the branch makes: lines 179 and 191
UpdateCalls(branch, m1, page_id) ==
    IF branch \in {"mint", "repair"}
    THEN <<[page_id |-> page_id, doc_id |-> m1[page_id]]>>
    ELSE <<>>

\* client.pages.update succeeded (ok) or raised and was logged
update_notion_doc_id(rem, call, ok) ==
    IF ok THEN [rem EXCEPT ![call.page_id] = call.doc_id] ELSE rem

InRun == pc \in {"loop", "save_mapping", "write_output"}

\* main.py:96-97 and process_pages lines 153-157
BeginRun ==
    /\ pc \in {"idle", "returned"}
    /\ \E b \in Batches(remote) : pages' = b
    /\ pc' = "loop"
    /\ i' = 1
    /\ counter' = load_counter
    /\ doc_mapping' = load_doc_mapping
    /\ loaded' = [counter |-> load_counter, mapping |-> load_doc_mapping]
    /\ processed_docs' = <<>>
    /\ published_docs' = <<>>
    /\ updates' = <<>>
    /\ first' = <<>>
    /\ UNCHANGED <<counter_file, doc_mapping_file, remote>>
    /\ UNCHANGED crashes
    /\ UNCHANGED outside_reconciler

\* process_pages called again with the batch of the run that just returned
Rerun ==
    /\ pc = "returned"
    /\ pc' = "loop"
    /\ i' = 1
    /\ counter' = load_counter
    /\ doc_mapping' = load_doc_mapping
    /\ loaded' = [counter |-> load_counter, mapping |-> load_doc_mapping]
    /\ processed_docs' = <<>>
    /\ published_docs' = <<>>
    /\ updates' = <<>>
    /\ first' = <<[counter |-> load_counter, mapping |-> load_doc_mapping,
                   docs |-> processed_docs, updates |-> updates]>>
    /\ UNCHANGED <<counter_file, doc_mapping_file, remote, pages>>
    /\ UNCHANGED crashes
    /\ UNCHANGED outside_reconciler

\* one iteration of the loop of lines 159-221
ProcessPage ==
    /\ pc = "loop"
    /\ i <= Len(pages)
    /\ i' = i + 1
    /\ LET page == pages[i]
           page_id == page.id
           existing_doc_id == page.doc_id
           branch == Branch(page_id, existing_doc_id, doc_mapping)
           c1 == NextCounter(branch, counter, existing_doc_id)
           m1 == NextMapping(branch, doc_mapping, c1, page_id, existing_doc_id)
           calls == UpdateCalls(branch, m1, page_id)
           doc_data == [page_id |-> page_id, doc_id |-> Get(m1, page_id),
                        publish |-> page.publish]
       IN  IF page.fault = "early"
           THEN UNCHANGED <<counter, doc_mapping, remote, updates,
                            processed_docs, published_docs>>
           ELSE /\ counter' = c1
                /\ doc_mapping' = m1
                /\ \E ok \in (IF calls = <<>> THEN {TRUE} ELSE BOOLEAN) :
                      /\ updates' = updates \o
                            [k \in 1..Len(calls) |->
                                [page_id |-> calls[k].page_id,
                                 doc_id |-> calls[k].doc_id, ok |-> ok]]
                      /\ remote' = IF calls = <<>> THEN remote
                                   ELSE update_notion_doc_id(remote, calls[1], ok)
                /\ IF page.fault = "late"
                   THEN UNCHANGED <<processed_docs, published_docs>>
                   ELSE /\ processed_docs' = Append(processed_docs, doc_data)
                        /\ published_docs' =
                              IF page.publish THEN Append(published_docs, doc_data)
                              ELSE published_docs
    /\ UNCHANGED <<counter_file, doc_mapping_file, pc, pages, loaded, first>>
    /\ UNCHANGED crashes
    /\ UNCHANGED outside_reconciler

\* line 224
save_counter ==
    /\ pc = "loop"
    /\ i > Len(pages)
    /\ counter_file' = <<counter>>
    /\ pc' = "save_mapping"
    /\ UNCHANGED <<doc_mapping_file, remote, pages, i, counter, doc_mapping,
                   processed_docs, published_docs, updates, loaded, first>>
    /\ UNCHANGED crashes
    /\ UNCHANGED outside_reconciler

\* line 225
save_doc_mapping ==
    /\ pc = "save_mapping"
    /\ doc_mapping_file' = <<doc_mapping>>
    /\ pc' = "write_output"
    /\ UNCHANGED <<counter_file, remote, pages, i, counter, doc_mapping,
                   processed_docs, published_docs, updates, loaded, first>>
    /\ UNCHANGED crashes
    /\ UNCHANGED outside_reconciler

\* lines 228-244: the output is built from processed_docs and published_docs
Return ==
    /\ pc = "write_output"
    /\ pc' = "returned"
    /\ UNCHANGED <<counter_file, doc_mapping_file, remote, pages, i, counter,
                   doc_mapping, processed_docs, published_docs, updates,
                   loaded, first>>
    /\ UNCHANGED crashes
    /\ UNCHANGED outside_reconciler

\* the process stops; everything but the files and the remote is lost
Crash ==
    /\ InRun
    /\ crashes < MaxCrashes
    /\ crashes' = crashes + 1
    /\ UNCHANGED outside_reconciler
    /\ pc' = "idle"
    /\ pages' = <<>>
    /\ i' = 1
    /\ counter' = 0
    /\ doc_mapping' = EmptyMapping
    /\ processed_docs' = <<>>
    /\ published_docs' = <<>>
    /\ updates' = <<>>
    /\ loaded' = [counter |-> 0, mapping |-> EmptyMapping]
    /\ first' = <<>>
    /\ UNCHANGED <<counter_file, doc_mapping_file, remote>>

\* somebody edits the DOC_ID field of a remote page between two runs
EditRemote ==
    /\ pc \in {"idle", "returned"}
    /\ \E p \in Pages, v \in ExternalIds \cup {Empty} :
          /\ remote[p] # v
          /\ remote' = [remote EXCEPT ![p] = v]
    /\ pc' = "idle"
    /\ pages' = <<>>
    /\ i' = 1
    /\ counter' = 0
    /\ doc_mapping' = EmptyMapping
    /\ processed_docs' = <<>>
    /\ published_docs' = <<>>
    /\ updates' = <<>>
    /\ loaded' = [counter |-> 0, mapping |-> EmptyMapping]
    /\ first' = <<>>
    /\ UNCHANGED <<counter_file, doc_mapping_file>>
    /\ UNCHANGED crashes
    /\ UNCHANGED outside_reconciler

Next ==
    \/ BeginRun
    \/ Rerun
    \/ ProcessPage
    \/ save_counter
    \/ save_doc_mapping
    \/ Return
    \/ Crash
    \/ EditRemote

Spec == Init /\ [][Next]_vars

\* the same system when nobody but the reconciler writes the DOC_ID fields
NextOwn ==
    \/ BeginRun
    \/ Rerun
    \/ ProcessPage
    \/ save_counter
    \/ save_doc_mapping
    \/ Return
    \/ Crash

SpecOwn == Init /\ [][NextOwn]_vars

\* ------------------------------------------------------------------
\* Vocabulary of the properties
\* ------------------------------------------------------------------
\* the loop step that runs the DOC_ID decision for pages[i]: the page's
\* field extraction (lines 161-169) did not raise
Decides ==
    /\ pc = "loop"
    /\ i <= Len(pages)
    /\ i' = i + 1
    /\ pages[i].fault # "early"

\* the batch positions this run has already decided
Decided == { k \in 1..Len(pages) : k < i /\ pages[k].fault # "early" }

UpdatesFor(p) == { u \in 1..Len(updates) : updates[u].page_id = p }

Injective(m) == \A p, q \in DOMAIN m : p # q => m[p] # m[q]

\* the ordinals of the well-formed ids the model can hold
Ordinals == 0..(MaxExternalOrd + NumPages * (MaxCrashes + 1))

\* ------------------------------------------------------------------
\* C1. Idempotence: when process_pages has run a second time on the batch
\* of the run before it, the counter and the mapping it persisted are those
\* the first run persisted, and every record got the doc_id it got before.
\* ------------------------------------------------------------------
C1_Idempotent ==
    (pc = "returned" /\ first # <<>>) =>
        /\ load_counter = first[1].counter
        /\ load_doc_mapping = first[1].mapping
        /\ processed_docs = first[1].docs

C1_Witness ==
    /\ pc = "returned"
    /\ first # <<>>
    /\ Len(first[1].docs) = NumPages
    /\ first[1].counter > 0
    /\ \E k \in 1..Len(pages) :
          /\ pages[k].doc_id = Empty
          /\ UpdatesFor(pages[k].id) # {}
    /\ \E k \in 1..Len(pages) : pages[k].doc_id # Empty

\* ------------------------------------------------------------------
\* C2. Injectivity: after a batch, two records of the batch with distinct
\* page ids have distinct public ids, and the persisted mapping is
\* injective.
\* ------------------------------------------------------------------
C2_Injective ==
    pc = "returned" =>
        /\ \A j, k \in 1..Len(processed_docs) :
              j # k => processed_docs[j].doc_id # processed_docs[k].doc_id
        /\ Injective(load_doc_mapping)

\* ------------------------------------------------------------------
\* C3. Mapping stability: no step of any run, complete or not, removes or
\* changes an entry of the persisted mapping, whatever the remote field
\* holds, published or not, in the batch or not.
\* ------------------------------------------------------------------
C3_MappingStable ==
    [][\A p \in DOMAIN load_doc_mapping :
          /\ p \in DOMAIN load_doc_mapping'
          /\ load_doc_mapping'[p] = load_doc_mapping[p]]_vars

C3_Witness ==
    /\ pc = "returned"
    /\ \E k \in 1..Len(pages) :
          /\ pages[k].id \in DOMAIN loaded.mapping
          /\ pages[k].doc_id \notin {Empty, loaded.mapping[pages[k].id]}
          /\ ~pages[k].publish
    /\ \E q \in DOMAIN loaded.mapping :
          \A k \in 1..Len(pages) : pages[k].id # q
    /\ load_doc_mapping = loaded.mapping

\* ------------------------------------------------------------------
\* C4 as stated. Counter monotonicity: the counter persisted by a batch is
\* at least the counter loaded, and at least the ordinal of every remote
\* DOC_ID read on a record of the batch.
\* ------------------------------------------------------------------
C4_Original ==
    pc = "returned" =>
        /\ load_counter >= loaded.counter
        /\ \A k \in 1..Len(pages) :
              (pages[k].fault # "early" /\ ParseOrdinal(pages[k].doc_id).ok)
                  => load_counter >= ParseOrdinal(pages[k].doc_id).val

\* ------------------------------------------------------------------
\* C4 amended. The counter persisted by a batch is at least the counter
\* loaded, and at least the ordinal of every remote DOC_ID the batch
\* adopted, that is, read on a record that had no mapping entry.
\* ------------------------------------------------------------------
C4_CounterMonotone ==
    pc = "returned" =>
        /\ load_counter >= loaded.counter
        /\ \A k \in 1..Len(pages), n \in Ordinals :
              ( /\ pages[k].fault # "early"
                /\ pages[k].id \notin DOMAIN loaded.mapping
                /\ pages[k].doc_id \in
                      {generate_doc_id(n), <<"D", "O", "C", "-">> \o Digits(n)} )
                  => load_counter >= n

C4_Witness ==
    /\ pc = "returned"
    /\ load_counter > loaded.counter
    /\ \E k \in 1..Len(pages) :
          /\ pages[k].fault # "early"
          /\ pages[k].id \notin DOMAIN loaded.mapping
          /\ pages[k].doc_id = generate_doc_id(load_counter)

\* ------------------------------------------------------------------
\* C5. Local present, remote absent: the step that decides such a record
\* issues exactly one remote update, for that record and carrying the
\* locally mapped id, and leaves the counter and the mapping as they were.
\* ------------------------------------------------------------------
C5_RepairCase ==
    [][( /\ Decides
         /\ pages[i].id \in DOMAIN doc_mapping
         /\ pages[i].doc_id = Empty )
        => /\ counter' = counter
           /\ doc_mapping' = doc_mapping
           /\ Len(updates') = Len(updates) + 1
           /\ updates'[Len(updates')].page_id = pages[i].id
           /\ updates'[Len(updates')].doc_id = doc_mapping[pages[i].id]]_vars

C5_Witness ==
    /\ InRun
    /\ \E k \in Decided :
          /\ pages[k].id \in DOMAIN loaded.mapping
          /\ pages[k].doc_id = Empty
          /\ Cardinality(UpdatesFor(pages[k].id)) = 1
          /\ \E u \in UpdatesFor(pages[k].id) :
                updates[u].ok /\ remote[pages[k].id] = loaded.mapping[pages[k].id]

\* ------------------------------------------------------------------
\* C6. Local absent, remote present: the step that decides such a record
\* stores exactly the remote id in the mapping, sets the counter to the
\* maximum of the counter and the ordinal of the remote id (an id with no
\* ordinal leaves the counter as it was), and issues no remote update.
\* ------------------------------------------------------------------
C6_AdoptCase ==
    [][( /\ Decides
         /\ pages[i].id \notin DOMAIN doc_mapping
         /\ pages[i].doc_id # Empty )
        => /\ doc_mapping' = Put(doc_mapping, pages[i].id, pages[i].doc_id)
           /\ \A n \in Ordinals :
                 pages[i].doc_id \in
                     {generate_doc_id(n), <<"D", "O", "C", "-">> \o Digits(n)}
                   => counter' = Max(counter, n)
           /\ pages[i].doc_id = <<"D", "O", "C", "X">> => counter' = counter
           /\ updates' = updates
           /\ remote' = remote]_vars

C6_Witness ==
    /\ InRun
    /\ \E j, k \in Decided :
          /\ pages[j].id \notin DOMAIN loaded.mapping
          /\ pages[j].doc_id = generate_doc_id(MaxExternalOrd)
          /\ doc_mapping[pages[j].id] = pages[j].doc_id
          /\ pages[k].id \notin DOMAIN loaded.mapping
          /\ pages[k].doc_id = <<"D", "O", "C", "X">>
          /\ doc_mapping[pages[k].id] = pages[k].doc_id
          /\ loaded.counter < MaxExternalOrd
          /\ counter = MaxExternalOrd
          /\ updates = <<>>

\* ------------------------------------------------------------------
\* C7. Neither present: the step that decides such a record increments the
\* counter by exactly one, stores the id formatted from the new counter
\* value (whose ordinal reads back as the new counter) in the mapping, and
\* issues exactly one remote update carrying that id.
\* ------------------------------------------------------------------
C7_MintCase ==
    [][( /\ Decides
         /\ pages[i].id \notin DOMAIN doc_mapping
         /\ pages[i].doc_id = Empty )
        => /\ counter' = counter + 1
           /\ doc_mapping' =
                 Put(doc_mapping, pages[i].id, generate_doc_id(counter + 1))
           /\ ParseOrdinal(doc_mapping'[pages[i].id]) =
                 [ok |-> TRUE, val |-> counter']
           /\ Len(updates') = Len(updates) + 1
           /\ updates'[Len(updates')].page_id = pages[i].id
           /\ updates'[Len(updates')].doc_id = doc_mapping'[pages[i].id]]_vars

C7_Witness ==
    /\ InRun
    /\ \E k \in Decided :
          /\ pages[k].id \notin DOMAIN loaded.mapping
          /\ pages[k].doc_id = Empty
          /\ loaded.counter > 0
          /\ doc_mapping[pages[k].id] = generate_doc_id(counter)
          /\ Cardinality(UpdatesFor(pages[k].id)) = 1
          /\ remote[pages[k].id] = generate_doc_id(counter)

\* ------------------------------------------------------------------
\* C8. Steady state: the step that decides a record whose remote DOC_ID
\* equals its mapping entry issues no remote update and changes neither
\* counter nor mapping; the record is output with the mapped id.
\* ------------------------------------------------------------------
C8_SteadyCase ==
    [][( /\ Decides
         /\ pages[i].id \in DOMAIN doc_mapping
         /\ pages[i].doc_id = doc_mapping[pages[i].id] )
        => /\ counter' = counter
           /\ doc_mapping' = doc_mapping
           /\ updates' = updates
           /\ remote' = remote
           /\ pages[i].fault = "none" =>
                 /\ Len(processed_docs') = Len(processed_docs) + 1
                 /\ processed_docs'[Len(processed_docs')].page_id = pages[i].id
                 /\ processed_docs'[Len(processed_docs')].doc_id =
                       doc_mapping[pages[i].id]]_vars

C8_Witness ==
    /\ InRun
    /\ \E k \in Decided :
          /\ pages[k].id \in DOMAIN loaded.mapping
          /\ pages[k].doc_id = loaded.mapping[pages[k].id]
          /\ \E d \in 1..Len(processed_docs) :
                /\ processed_docs[d].page_id = pages[k].id
                /\ processed_docs[d].doc_id = pages[k].doc_id

\* ------------------------------------------------------------------
\* C9. Conflict precedence: the step that decides a record whose mapping
\* entry and remote DOC_ID are both non-empty and differ outputs the record
\* with the local mapping value, leaves the mapping entry, the counter and
\* the remote field as they were, and issues no remote update.
\* ------------------------------------------------------------------
C9_ConflictCase ==
    [][( /\ Decides
         /\ pages[i].id \in DOMAIN doc_mapping
         /\ pages[i].doc_id # Empty
         /\ pages[i].doc_id # doc_mapping[pages[i].id] )
        => /\ counter' = counter
           /\ doc_mapping' = doc_mapping
           /\ updates' = updates
           /\ remote' = remote
           /\ pages[i].fault = "none" =>
                 /\ Len(processed_docs') = Len(processed_docs) + 1
                 /\ processed_docs'[Len(processed_docs')].page_id = pages[i].id
                 /\ processed_docs'[Len(processed_docs')].doc_id =
                       doc_mapping[pages[i].id]]_vars

C9_Witness ==
    /\ InRun
    /\ \E k \in Decided :
          /\ pages[k].id \in DOMAIN loaded.mapping
          /\ pages[k].doc_id \notin {Empty, loaded.mapping[pages[k].id]}
          /\ ParseOrdinal(pages[k].doc_id).ok
          /\ ParseOrdinal(pages[k].doc_id).val > counter
          /\ remote[pages[k].id] = pages[k].doc_id
          /\ \E d \in 1..Len(processed_docs) :
                /\ processed_docs[d].page_id = pages[k].id
                /\ processed_docs[d].doc_id = loaded.mapping[pages[k].id]

\* ------------------------------------------------------------------
\* C10. Crash atomicity: at every point of a run of process_pages the
\* persisted pair (counter, mapping) is the pair the run loaded or the
\* pair the run computes, never the new value of one with the old value of
\* the other.
\* ------------------------------------------------------------------
C10_Atomic ==
    InRun =>
        \/ /\ load_counter = loaded.counter
           /\ load_doc_mapping = loaded.mapping
        \/ /\ i > Len(pages)
           /\ load_counter = counter
           /\ load_doc_mapping = doc_mapping

\* the remote updates of a run that failed
FailedUpdates(us) == { u \in 1..Len(us) : ~us[u].ok }

\* ------------------------------------------------------------------
\* C11. Write-back failure: when a run has returned, every page of the
\* batch was handled, the counter and the mapping it computed are the
\* persisted ones, and the id of every failed remote update is in the
\* persisted mapping (with the counter advance when it was minted); and
\* when the run is repeated on that batch, where the remote field is still
\* absent, an update carrying the same id is issued for every record whose
\* update had failed.
\* ------------------------------------------------------------------
C11_WriteBackFailure ==
    /\ pc = "returned" =>
          /\ i = Len(pages) + 1
          /\ Len(processed_docs) =
                Cardinality({ k \in 1..Len(pages) : pages[k].fault = "none" })
          /\ load_counter = counter
          /\ load_doc_mapping = doc_mapping
          /\ \A u \in FailedUpdates(updates) :
                /\ updates[u].page_id \in DOMAIN load_doc_mapping
                /\ load_doc_mapping[updates[u].page_id] = updates[u].doc_id
                /\ updates[u].page_id \notin DOMAIN loaded.mapping =>
                      /\ ParseOrdinal(updates[u].doc_id).ok
                      /\ ParseOrdinal(updates[u].doc_id).val > loaded.counter
                      /\ ParseOrdinal(updates[u].doc_id).val <= load_counter
    /\ (pc = "returned" /\ first # <<>>) =>
          \A u \in FailedUpdates(first[1].updates) :
             \E v \in 1..Len(updates) :
                /\ updates[v].page_id = first[1].updates[u].page_id
                /\ updates[v].doc_id = first[1].updates[u].doc_id

C11_Witness ==
    /\ pc = "returned"
    /\ first # <<>>
    /\ Len(pages) = NumPages
    /\ \E u \in FailedUpdates(first[1].updates) :
          /\ first[1].updates[u].page_id = pages[1].id
          /\ first[1].updates[u].doc_id = generate_doc_id(1)
          /\ \E v \in 1..Len(updates) :
                /\ updates[v].page_id = pages[1].id
                /\ updates[v].ok
                /\ remote[pages[1].id] = generate_doc_id(1)
    /\ \E d \in 1..Len(processed_docs) : processed_docs[d].page_id = pages[NumPages].id

\* ------------------------------------------------------------------
\* C12. A record whose processing raises is skipped for ID purposes: when
\* the run has returned the other records were processed, a failing record
\* has gained no mapping entry, and a batch of failing records only has
\* left the counter as it was loaded.
\* ------------------------------------------------------------------
C12_FailingSkipped ==
    pc = "returned" =>
        /\ Len(processed_docs) =
              Cardinality({ k \in 1..Len(pages) : pages[k].fault = "none" })
        /\ \A k \in 1..Len(pages) :
              (pages[k].fault # "none" /\ pages[k].id \in DOMAIN load_doc_mapping)
                  => pages[k].id \in DOMAIN loaded.mapping
        /\ (\A k \in 1..Len(pages) : pages[k].fault # "none")
              => load_counter = loaded.counter

\* the record's processing does not raise
Processable(page) == page.fault = "none"

MaxBlocks == 4

\* Python's None for current_list_type
None == "None"

\* block types: the two list-item kinds of line 140, one supported
\* non-list kind and one kind the block renderer does not know
ListItemKinds == {"bulleted_list_item", "numbered_list_item"}

BlockKinds == ListItemKinds \cup {"paragraph", "unsupported"}

\* a fragment of HTML is a sequence of tokens, all of one shape
OpenTok(tag) == [t |-> "open", tag |-> tag, src |-> 0]

CloseTok(tag) == [t |-> "close", tag |-> tag, src |-> 0]

Newline == [t |-> "nl", tag |-> "", src |-> 0]

\* BlockRenderer.render_block: the HTML of one block, whatever its kind
\* (an unknown kind yields a placeholder); kept as one token that names
\* the block it came from
render_block(block) == [t |-> "block", tag |-> block.type, src |-> block.id]

\* the block lists: every sequence of kinds up to MaxBlocks, ids by position
BlockLists ==
    UNION { { [k \in 1..n |-> [id |-> k, type |-> f[k]]] :
              f \in [1..n -> BlockKinds] } : n \in 0..MaxBlocks }

\* line 141
ListTag(block_type) ==
    IF block_type = "bulleted_list_item" THEN "ul" ELSE "ol"

\* variant: a list is only opened when none is open (kind is ignored)
SwitchesList_OnlyWhenNone(cur, list_tag) == cur = None

\* line 143: the open list, if any, is of another kind than this item
SwitchesList(cur, list_tag) == cur # list_tag

\* lines 144, 154, 163: truthiness of the tag and of the item list
Flushable(cur, items) == cur # None /\ items # <<>>

\* lines 145, 155, 164: f"<{tag}>{''.join(items)}</{tag}>"
Wrap(tag, items) == <<OpenTok(tag)>> \o items \o <<CloseTok(tag)>>

\* lines 144-145, 154-155: flush the open list into html_parts
Flushed(parts, cur, items) ==
    IF Flushable(cur, items) THEN Append(parts, Wrap(cur, items)) ELSE parts

\* lines 140-152: one list item
ListItemStep(st, block) ==
    LET list_tag == ListTag(block.type)
        sw == SwitchesList(st.current_list_type, list_tag)
    IN [ html_parts |->
             IF sw THEN Flushed(st.html_parts, st.current_list_type,
                                st.current_list_items)
             ELSE st.html_parts,
         current_list_type |-> IF sw THEN list_tag ELSE st.current_list_type,
         current_list_items |->
             Append(IF sw /\ Flushable(st.current_list_type,
                                        st.current_list_items)
                    THEN <<>> ELSE st.current_list_items,
                    render_block(block)) ]

\* variant: a non-list block is emitted without closing the open list
OtherBlockStep_NoClose(st, block) ==
    [ html_parts |-> Append(st.html_parts, <<render_block(block)>>),
      current_list_type |-> st.current_list_type,
      current_list_items |-> st.current_list_items ]

\* lines 153-161: any other block
OtherBlockStep(st, block) ==
    LET fl == Flushable(st.current_list_type, st.current_list_items)
    IN [ html_parts |->
             Append(Flushed(st.html_parts, st.current_list_type,
                            st.current_list_items),
                    <<render_block(block)>>),
         current_list_type |-> IF fl THEN None ELSE st.current_list_type,
         current_list_items |-> IF fl THEN <<>> ELSE st.current_list_items ]

\* variant: the list still open after the last block is dropped
FinalFlush_Forgotten(parts, cur, items) == parts

\* lines 163-166
FinalFlush(parts, cur, items) == Flushed(parts, cur, items)

RECURSIVE Join(_)
\* line 168: "\n".join(html_parts)
Join(parts) ==
    IF parts = <<>> THEN <<>>
    ELSE IF Len(parts) = 1 THEN parts[1]
    ELSE parts[1] \o <<Newline>> \o Join(Tail(parts))

\* lines 130-135: the renderer is handed a block list and sets its locals
InitRender ==
    /\ ReconcilerInit
    /\ RegenOff
    /\ RaceOff
    /\ PipelineOff
    /\ ContentOff
    /\ FetchOff
    /\ RoundTripOff
    /\ AssemblerOff
    /\ IndexOff
    /\ blocks \in BlockLists
    /\ bi = 1
    /\ html_parts = <<>>
    /\ current_list_type = None
    /\ current_list_items = <<>>
    /\ content_html = <<>>
    /\ rpc = "loop"

\* lines 137-161: one iteration of the loop over the blocks
RenderBlock ==
    /\ rpc = "loop"
    /\ bi <= Len(blocks)
    /\ LET block == blocks[bi]
           st == [ html_parts |-> html_parts,
                   current_list_type |-> current_list_type,
                   current_list_items |-> current_list_items ]
           st1 == IF block.type \in ListItemKinds
                  THEN ListItemStep(st, block)
                  ELSE OtherBlockStep(st, block)
       IN /\ html_parts' = st1.html_parts
          /\ current_list_type' = st1.current_list_type
          /\ current_list_items' = st1.current_list_items
    /\ bi' = bi + 1
    /\ UNCHANGED <<blocks, content_html, rpc>>
    /\ UNCHANGED outside_renderer

\* lines 163-168: the flush after the loop and the join
RenderFinish ==
    /\ rpc = "loop"
    /\ bi = Len(blocks) + 1
    /\ html_parts' = FinalFlush(html_parts, current_list_type,
                                current_list_items)
    /\ content_html' = Join(html_parts')
    /\ rpc' = "done"
    /\ UNCHANGED <<blocks, bi, current_list_type, current_list_items>>
    /\ UNCHANGED outside_renderer

NextRender ==
    \/ RenderBlock
    \/ RenderFinish

SpecRender == InitRender /\ [][NextRender]_vars

\* ----------------------------------------------------------------------
\* Vocabulary for the renderer claims: the fragment read back
\* ----------------------------------------------------------------------

IsListItem(k) == blocks[k].type \in ListItemKinds

\* k starts a maximal run of list items of one kind
RunStart(k) ==
    /\ IsListItem(k)
    /\ k = 1 \/ blocks[k - 1].type # blocks[k].type

\* the last block of the maximal run that starts at k
RunEnd(k) ==
    CHOOSE e \in k..Len(blocks) :
        /\ \A j \in k..e : blocks[j].type = blocks[k].type
        /\ e = Len(blocks) \/ blocks[e + 1].type # blocks[k].type

RunStarts == { k \in 1..Len(blocks) : RunStart(k) }

OpenAt == { p \in 1..Len(content_html) : content_html[p].t = "open" }

CloseAt == { p \in 1..Len(content_html) : content_html[p].t = "close" }

\* number of containers open around position p of the fragment
Depth(p) ==
    Cardinality({ q \in OpenAt : q < p }) -
    Cardinality({ q \in CloseAt : q < p })

\* the container that the run starting at k should have become
RunHtml(k) ==
    Wrap(ListTag(blocks[k].type),
         [ j \in 1..(RunEnd(k) - k + 1) |-> render_block(blocks[k + j - 1]) ])

\* the fragment holds sub at positions p .. p + Len(sub) - 1
HoldsAt(p, sub) ==
    /\ p + Len(sub) - 1 <= Len(content_html)
    /\ \A j \in 1..Len(sub) : content_html[p + j - 1] = sub[j]

\* the tokens of the fragment that stand for blocks, in order
BlockToks == SelectSeq(content_html, LAMBDA tok : tok.t = "block")

\* C14: when the renderer has returned, the fragment holds exactly one list
\* container per maximal run of consecutive same-kind list items, made of
\* that run's items in order; a list still open after the last block is
\* flushed too; no container nests in another and every non-list block
\* stands outside all containers.
C14_Grouping ==
    rpc = "done" =>
        /\ Cardinality(OpenAt) = Cardinality(RunStarts)
        /\ Cardinality(CloseAt) = Cardinality(RunStarts)
        /\ \A k \in RunStarts : \E p \in OpenAt : HoldsAt(p, RunHtml(k))
        /\ \A p \in 1..Len(content_html) :
               LET tok == content_html[p]
               IN /\ Depth(p) \in {0, 1}
                  /\ tok.t = "open" => Depth(p) = 0
                  /\ tok.t = "block" =>
                         (Depth(p) = 1 <=> tok.tag \in ListItemKinds)

\* a bulleted run, a paragraph, a second bulleted run still open at the
\* end: two containers, the paragraph between them
C14_Witness ==
    /\ rpc = "done"
    /\ Len(blocks) = 4
    /\ blocks[1].type = "bulleted_list_item"
    /\ blocks[2].type = "bulleted_list_item"
    /\ blocks[3].type = "paragraph"
    /\ blocks[4].type = "bulleted_list_item"
    /\ Cardinality(OpenAt) = 2

\* C15: where a list item of one kind directly follows a list item of the
\* other kind, the first item's container is closed right after it and a
\* container of the other kind is opened right before the second item;
\* every item stands in a container whose tag is the one of its own kind.
C15_KindSwitch ==
    rpc = "done" =>
        /\ \A k \in 1..(Len(blocks) - 1) :
               (IsListItem(k) /\ IsListItem(k + 1)
                    /\ blocks[k].type # blocks[k + 1].type) =>
                   \E p \in 1..Len(content_html) :
                       HoldsAt(p, << render_block(blocks[k]),
                                     CloseTok(ListTag(blocks[k].type)),
                                     Newline,
                                     OpenTok(ListTag(blocks[k + 1].type)),
                                     render_block(blocks[k + 1]) >>)
        /\ \A p \in 1..Len(content_html) :
               (content_html[p].t = "block" /\ Depth(p) = 1) =>
                   LET o == CHOOSE q \in OpenAt :
                                /\ q < p
                                /\ \A r \in OpenAt : r < p => r <= q
                       c == CHOOSE q \in CloseAt :
                                /\ q > p
                                /\ \A r \in CloseAt : r > p => r >= q
                   IN /\ content_html[o].tag = ListTag(content_html[p].tag)
                      /\ content_html[c].tag = ListTag(content_html[p].tag)

\* bulleted then numbered: a ul with the first item, an ol with the second
C15_Witness ==
    /\ rpc = "done"
    /\ Len(blocks) = 2
    /\ blocks[1].type = "bulleted_list_item"
    /\ blocks[2].type = "numbered_list_item"
    /\ content_html = Wrap("ul", <<render_block(blocks[1])>>) \o <<Newline>>
                      \o Wrap("ol", <<render_block(blocks[2])>>)

\* C16: when the renderer has returned, the fragment holds the rendering of
\* every block of the input, unknown kinds included, exactly once and in
\* source order, and no list container is empty.
C16_OrderComplete ==
    rpc = "done" =>
        /\ BlockToks = [ k \in 1..Len(blocks) |-> render_block(blocks[k]) ]
        /\ \A p \in OpenAt : content_html[p + 1].t = "block"

\* an unknown kind between list items and a paragraph
C16_Witness ==
    /\ rpc = "done"
    /\ Len(blocks) = 4
    /\ blocks[1].type = "numbered_list_item"
    /\ blocks[2].type = "unsupported"
    /\ blocks[3].type = "bulleted_list_item"
    /\ blocks[4].type = "paragraph"
    /\ Len(BlockToks) = 4

\* ======================================================================
\* Page assembler: HTMLRenderer._build_document_page
\* (src/renderer/html_renderer.py, lines 192-269)
\* ======================================================================

\* Text is a sequence of pieces: a piece is either one placeholder token or
\* a stretch of text that holds no "@@".  A placeholder is then one piece,
\* never part of a piece and never split over two.

\* longest title and longest rendered content, in pieces
MaxValueLen == 1

\* the tokens replaced at lines 258-267, in the order of the calls
Placeholders ==
    << "@@TITLE@@", "@@CSS@@", "@@DOC_ID@@", "@@BARCODE_HTML@@",
       "@@PROPERTY_HTML@@", "@@CONTENT_HTML@@", "@@VIEWS@@", "@@DOWNLOADS@@",
       "@@SHARES@@", "@@TIMESTAMP@@" >>

PlaceholderSet == { Placeholders[k] : k \in 1..Len(Placeholders) }

\* variant: the heading spells the title out of another token
html_template_SingleTitle ==
    << "<!DOCTYPE html>..<title>", "@@TITLE@@",
       " - INTRA-HUB</title>..<style>", "@@CSS@@",
       "</style>..<h1 class=doc-title>", "@@HEADING@@",
       "</h1>..Document ID: ", "@@DOC_ID@@",
       "</div>..<div class=header-right>", "@@BARCODE_HTML@@",
       "</div>..Views:</strong> ", "@@VIEWS@@",
       "</span>..Downloads:</strong> ", "@@DOWNLOADS@@",
       "</span>..Shares:</strong> ", "@@SHARES@@",
       "</span>..</div>", "@@PROPERTY_HTML@@",
       "<div class=document-content>", "@@CONTENT_HTML@@",
       "</div>..Last updated: ", "@@TIMESTAMP@@",
       "</div>..</html>" >>

\* lines 205-255: the template, its literal text cut at the placeholders
html_template ==
    << "<!DOCTYPE html>..<title>", "@@TITLE@@",
       " - INTRA-HUB</title>..<style>", "@@CSS@@",
       "</style>..<h1 class=doc-title>", "@@TITLE@@",
       "</h1>..Document ID: ", "@@DOC_ID@@",
       "</div>..<div class=header-right>", "@@BARCODE_HTML@@",
       "</div>..Views:</strong> ", "@@VIEWS@@",
       "</span>..Downloads:</strong> ", "@@DOWNLOADS@@",
       "</span>..Shares:</strong> ", "@@SHARES@@",
       "</span>..</div>", "@@PROPERTY_HTML@@",
       "<div class=document-content>", "@@CONTENT_HTML@@",
       "</div>..Last updated: ", "@@TIMESTAMP@@",
       "</div>..</html>" >>

RECURSIVE replace(_, _, _)
\* str.replace(old, new): every occurrence of old, left to right; what it
\* puts in is not looked at again by the same call
replace(text, old, new) ==
    IF text = <<>> THEN <<>>
    ELSE (IF Head(text) = old THEN new ELSE <<Head(text)>>)
         \o replace(Tail(text), old, new)

\* lines 258-267: the value the k-th call puts in
Replacement(a, k) ==
    CASE k = 1 -> a.title
      [] k = 2 -> a.css
      [] k = 3 -> a.doc_id
      [] k = 4 -> a.barcode_html
      [] k = 5 -> a.property_html
      [] k = 6 -> a.content_html
      [] k = 7 -> a.views
      [] k = 8 -> a.downloads
      [] k = 9 -> a.shares
      [] k = 10 -> a.timestamp

\* free text: plain pieces and pieces that spell a placeholder
FreeText ==
    UNION { [1..n -> {"text"} \cup PlaceholderSet] : n \in 0..MaxValueLen }

\* lines 192-203: the arguments; title and rendered content are free text
\* of the document, the rest is produced by the program
InitAssemble ==
    /\ ReconcilerInit
    /\ RegenOff
    /\ RaceOff
    /\ PipelineOff
    /\ ContentOff
    /\ FetchOff
    /\ RoundTripOff
    /\ RendererOff
    /\ IndexOff
    /\ \E t \in FreeText, c \in FreeText :
           args = [ doc_id |-> <<"DOC-0001">>, title |-> t,
                    barcode_html |-> <<"<svg>">>,
                    property_html |-> <<"<table>">>, content_html |-> c,
                    css |-> <<"body{}">>, views |-> <<"0">>,
                    downloads |-> <<"0">>, shares |-> <<"0">>,
                    timestamp |-> <<"2024-01-01 00:00:00">> ]
    /\ html = html_template
    /\ step = 0
    /\ apc = "subst"

\* lines 258-267: the next .replace of the chain
ReplaceStep ==
    /\ apc = "subst"
    /\ step < Len(Placeholders)
    /\ html' = replace(html, Placeholders[step + 1],
                       Replacement(args, step + 1))
    /\ step' = step + 1
    /\ UNCHANGED <<args, apc>>
    /\ UNCHANGED outside_assembler

\* line 269
ReturnPage ==
    /\ apc = "subst"
    /\ step = Len(Placeholders)
    /\ apc' = "done"
    /\ UNCHANGED <<args, html, step>>
    /\ UNCHANGED outside_assembler

NextAssemble ==
    \/ ReplaceStep
    \/ ReturnPage

SpecAssemble == InitAssemble /\ [][NextAssemble]_vars

\* ----------------------------------------------------------------------
\* Vocabulary for the assembler claims
\* ----------------------------------------------------------------------

\* number of pieces of text equal to tok
Count(text, tok) == Cardinality({ p \in 1..Len(text) : text[p] = tok })

\* the value that belongs to a placeholder
ValueOf(a, tok) ==
    Replacement(a, CHOOSE k \in 1..Len(Placeholders) : Placeholders[k] = tok)

RECURSIVE SinglePass(_, _)
\* one pass over the template: each placeholder of the template gives way
\* to its value, and the values are put in as they are
SinglePass(text, a) ==
    IF text = <<>> THEN <<>>
    ELSE (IF Head(text) \in PlaceholderSet THEN ValueOf(a, Head(text))
          ELSE <<Head(text)>>)
         \o SinglePass(Tail(text), a)

\* C17: the page returned is the template with each placeholder replaced by
\* its value in one pass: text that came in with a value is not scanned for
\* placeholders, so a placeholder token inside a title or inside rendered
\* content stands verbatim in the page.
C17_SinglePass ==
    apc = "done" => html = SinglePass(html_template, args)

\* C18 as stated: every placeholder occurs exactly once in the template.
C18_Original ==
    (apc = "subst" /\ step = 0) =>
        \A tok \in PlaceholderSet : Count(html, tok) = 1

\* C18: in the template @@TITLE@@ occurs exactly twice (in the <title> and
\* in the <h1>), each of the other nine placeholders occurs exactly once,
\* and the template holds no other @@ token.
C18_TemplateOccurrences ==
    (apc = "subst" /\ step = 0) =>
        /\ Count(html, "@@TITLE@@") = 2
        /\ \A tok \in PlaceholderSet \ {"@@TITLE@@"} : Count(html, tok) = 1
        /\ \A p \in 1..Len(html) :
               (p % 2 = 0) => html[p] \in PlaceholderSet

\* the assembler has taken the template and not yet replaced anything
C18_Witness ==
    /\ apc = "subst"
    /\ step = 0
    /\ html = html_template
    /\ args.title = <<"text">>

\* ======================================================================
\* Index builder: HTMLRenderer.generate_homepage and _build_pagination
\* (src/renderer/html_renderer.py, lines 627-665 and 750-772)
\* ======================================================================

\* most records in the published manifest
MaxDocs == 23

\* line 642
items_per_page == 10

\* the characters of the ids, in code-point order
Alphabet ==
    <<"-", "0", "1", "2", "3", "4", "5", "6", "7", "8", "9",
      "C", "D", "O", "X">>

CharCode(c) == CHOOSE k \in 1..Len(Alphabet) : Alphabet[k] = c

RECURSIVE StrLess(_, _)
\* Python's < on str: the first differing character decides, a proper
\* prefix is smaller
StrLess(a, b) ==
    IF b = <<>> THEN FALSE
    ELSE IF a = <<>> THEN TRUE
    ELSE IF Head(a) # Head(b) THEN CharCode(Head(a)) < CharCode(Head(b))
    ELSE StrLess(Tail(a), Tail(b))

RECURSIVE InsertDesc(_, _)
\* x goes behind every element whose key is not smaller than its own
InsertDesc(sorted, x) ==
    IF sorted = <<>> THEN <<x>>
    ELSE IF StrLess(Head(sorted).doc_id, x.doc_id) THEN <<x>> \o sorted
    ELSE <<Head(sorted)>> \o InsertDesc(Tail(sorted), x)

\* variant: the manifest order is kept
SortDesc_Unsorted(list) == list

RECURSIVE SortDesc(_)
\* line 640: list.sort(key=doc_id, reverse=True), which is stable
SortDesc(list) ==
    IF list = <<>> THEN <<>>
    ELSE InsertDesc(SortDesc(SubSeq(list, 1, Len(list) - 1)),
                    list[Len(list)])

\* variant: the division rounds down
TotalPages_Floor(n) == n \div items_per_page

\* line 643
TotalPages(n) == (n + items_per_page - 1) \div items_per_page

\* lines 646-648: docs[start_idx:end_idx]; a slice never runs past the end
PageDocs(list, p) ==
    LET start_idx == (p - 1) * items_per_page
        end_idx == start_idx + items_per_page
    IN  SubSeq(list, start_idx + 1,
               IF end_idx <= Len(list) THEN end_idx ELSE Len(list))

IndexHtml == <<"i", "n", "d", "e", "x", ".", "h", "t", "m", "l">>

\* f"page-{n}.html"
PageHtml(n) ==
    <<"p", "a", "g", "e", "-">> \o Digits(n) \o <<".", "h", "t", "m", "l">>

\* lines 652-655: the file a page is written to
OutputFile(p) == IF p = 1 THEN IndexHtml ELSE PageHtml(p)

\* variant: the previous page is always addressed by its number
PrevUrl_Numbered(current_page) == PageHtml(current_page - 1)

\* line 758
PrevUrl(current_page) ==
    IF current_page = 2 THEN IndexHtml ELSE PageHtml(current_page - 1)

\* line 762
NumberUrl(n) == IF n = 1 THEN IndexHtml ELSE PageHtml(n)

\* line 769
NextUrl(current_page) == PageHtml(current_page + 1)

\* one entry of the pagination bar: an anchor (prev, num, next) with its
\* target below the web root, or the span of the current page
Link(kind, label, href) == [kind |-> kind, label |-> label, href |-> href]

\* lines 750-772
_build_pagination(current_page, pages_total) ==
    IF pages_total <= 1 THEN <<>>
    ELSE (IF current_page > 1
          THEN <<Link("prev", 0, PrevUrl(current_page))>> ELSE <<>>)
         \o [ n \in 1..pages_total |->
                IF n = current_page THEN Link("active", n, <<>>)
                ELSE Link("num", n, NumberUrl(n)) ]
         \o (IF current_page < pages_total
             THEN <<Link("next", 0, NextUrl(current_page))>> ELSE <<>>)

\* lines 667-748: the listing page, as the ids of its rows and its bar
_build_homepage_html(page_docs, p, pages_total) ==
    [ rows |-> [ r \in 1..Len(page_docs) |-> page_docs[r].doc_id ],
      page_num |-> p,
      links |-> _build_pagination(p, pages_total) ]

\* open(output_file, "w") and write
WriteFile(fs, name, content) ==
    [ f \in DOMAIN fs \cup {name} |-> IF f = name THEN content ELSE fs[f] ]

\* the manifests: n records with the ids of ordinals 1..n, oldest first or
\* newest first
Manifests ==
    UNION { { [ k \in 1..n |-> [doc_id |-> generate_doc_id(k)] ],
              [ k \in 1..n |-> [doc_id |-> generate_doc_id(n + 1 - k)] ] } :
            n \in 0..MaxDocs }

\* generate_homepage is called with the manifest absent or present
InitIndex ==
    /\ ReconcilerInit
    /\ RegenOff
    /\ RaceOff
    /\ PipelineOff
    /\ ContentOff
    /\ FetchOff
    /\ RoundTripOff
    /\ RendererOff
    /\ AssemblerOff
    /\ published_file \in {<<>>} \cup { <<m>> : m \in Manifests }
    /\ public_files = <<>>
    /\ docs = <<>>
    /\ total_pages = 0
    /\ page_num = 1
    /\ ipc = "start"

\* lines 632-635 and 662-666: no manifest, the empty homepage
_create_empty_homepage ==
    /\ ipc = "start"
    /\ published_file = <<>>
    /\ public_files' =
           WriteFile(public_files, IndexHtml, _build_homepage_html(<<>>, 1, 1))
    /\ ipc' = "done"
    /\ UNCHANGED <<published_file, docs, total_pages, page_num>>
    /\ UNCHANGED outside_index

\* lines 637-643: load, sort, count the pages
LoadDocs ==
    /\ ipc = "start"
    /\ published_file # <<>>
    /\ docs' = SortDesc(published_file[1])
    /\ total_pages' = TotalPages(Len(docs'))
    /\ page_num' = 1
    /\ ipc' = "pages"
    /\ UNCHANGED <<published_file, public_files>>
    /\ UNCHANGED outside_index

\* lines 645-660: one iteration of the loop over the pages
WritePage ==
    /\ ipc = "pages"
    /\ page_num <= total_pages
    /\ public_files' =
           WriteFile(public_files, OutputFile(page_num),
                     _build_homepage_html(PageDocs(docs, page_num),
                                          page_num, total_pages))
    /\ page_num' = page_num + 1
    /\ UNCHANGED <<published_file, docs, total_pages, ipc>>
    /\ UNCHANGED outside_index

\* the loop is over
HomepageDone ==
    /\ ipc = "pages"
    /\ page_num > total_pages
    /\ ipc' = "done"
    /\ UNCHANGED <<published_file, public_files, docs, total_pages, page_num>>
    /\ UNCHANGED outside_index

NextIndex ==
    \/ _create_empty_homepage
    \/ LoadDocs
    \/ WritePage
    \/ HomepageDone

SpecIndex == InitIndex /\ [][NextIndex]_vars

\* ----------------------------------------------------------------------
\* Vocabulary for the index claims
\* ----------------------------------------------------------------------

\* the published records, as the manifest lists them
Published == IF published_file = <<>> THEN <<>> ELSE published_file[1]

\* the least number of pages of ten that hold n records
Ceil10(n) == CHOOSE c \in 0..n : 10 * c >= n /\ 10 * (c - 1) < n

\* the listing page of number k, read from the file of that page
ListingPage(k) ==
    public_files[IF k = 1 THEN IndexHtml
                 ELSE <<"p", "a", "g", "e", "-">> \o Digits(k)
                      \o <<".", "h", "t", "m", "l">>]

\* the places (page, row) where a record is listed
ListedAt(d) ==
    { pr \in (1..Ceil10(Len(Published))) \X (1..10) :
        /\ pr[2] <= Len(ListingPage(pr[1]).rows)
        /\ ListingPage(pr[1]).rows[pr[2]] = d.doc_id }

\* C19: once generate_homepage has returned for a manifest of n >= 1
\* records, there are exactly ceil(n/10) listing pages; each but the last
\* lists 10 records, the last lists the remaining n - 10*(pages-1), between
\* 1 and 10; every published record is listed on exactly one page, once.
C19_Partition ==
    (ipc = "done" /\ Len(Published) >= 1) =>
        LET n == Len(Published)
            N == Ceil10(n)
        IN  /\ total_pages = N
            /\ Cardinality(DOMAIN public_files) = N
            /\ \A k \in 1..N :
                   /\ ListingPage(k).page_num = k
                   /\ Len(ListingPage(k).rows) =
                          IF k < N THEN 10 ELSE n - 10 * (N - 1)
            /\ n - 10 * (N - 1) \in 1..10
            /\ \A r \in 1..n : Cardinality(ListedAt(Published[r])) = 1

\* 23 records: three pages of 10, 10 and 3
C19_Witness ==
    /\ ipc = "done"
    /\ Len(Published) = 23
    /\ Cardinality(DOMAIN public_files) = 3
    /\ Len(ListingPage(1).rows) = 10
    /\ Len(ListingPage(2).rows) = 10
    /\ Len(ListingPage(3).rows) = 3

\* the anchors of a bar of one kind
LinksOf(bar, kind) == SelectSeq(bar, LAMBDA l : l.kind = kind)

\* the entries of a bar that carry a page number
Numbered(bar) == SelectSeq(bar, LAMBDA l : l.kind \in {"num", "active"})

\* the file name of listing page k
FileOf(k) ==
    IF k = 1 THEN IndexHtml
    ELSE <<"p", "a", "g", "e", "-">> \o Digits(k)
         \o <<".", "h", "t", "m", "l">>

\* C20: once generate_homepage has returned with N pages, page 1 is the
\* file index.html and page k > 1 the file page-k.html; on page k a
\* previous link exists iff k > 1 and targets index.html for k = 2 and
\* page-(k-1).html otherwise; a next link exists iff k < N and targets
\* page-(k+1).html; the numbered anchors are those of the pages 1..N but k,
\* each to the file of its page, and with N > 1 the bar shows k itself as
\* plain text in its place; every target is the file of a page in 1..N and
\* none is page-1.html.
C20_Navigation ==
    (ipc = "done" /\ published_file # <<>>) =>
        LET N == total_pages
        IN  /\ DOMAIN public_files = { FileOf(k) : k \in 1..N }
            /\ \A k \in 1..N :
                   LET pg == public_files[FileOf(k)]
                       prev == LinksOf(pg.links, "prev")
                       next == LinksOf(pg.links, "next")
                       nums == Numbered(pg.links)
                   IN  /\ pg.page_num = k
                       /\ Len(prev) = IF k > 1 THEN 1 ELSE 0
                       /\ k > 1 => prev[1].href = FileOf(k - 1)
                       /\ k = 2 => prev[1].href = IndexHtml
                       /\ Len(next) = IF k < N THEN 1 ELSE 0
                       /\ k < N => next[1].href = FileOf(k + 1)
                       /\ { l.label : l \in { nums[q] : q \in 1..Len(nums) } }
                              = IF N > 1 THEN 1..N ELSE {}
                       /\ \A q \in 1..Len(nums) :
                              /\ nums[q].label = q
                              /\ nums[q].kind = "active" <=> q = k
                              /\ nums[q].kind = "num" =>
                                     nums[q].href = FileOf(q)
                       /\ \A q \in 1..Len(pg.links) :
                              pg.links[q].kind # "active" =>
                                  /\ pg.links[q].href \in DOMAIN public_files
                                  /\ pg.links[q].href #
                                         <<"p", "a", "g", "e", "-", "1",
                                           ".", "h", "t", "m", "l">>

\* three pages are written and the second links back to index.html and on
\* to page-3.html
C20_Witness ==
    /\ ipc = "done"
    /\ total_pages = 3
    /\ FileOf(2) \in DOMAIN public_files
    /\ LinksOf(public_files[FileOf(2)].links, "prev")[1].href = IndexHtml
    /\ LinksOf(public_files[FileOf(2)].links, "next")[1].href = FileOf(3)

RECURSIVE ConcatRows(_)
\* the rows of the listing pages 1..k, one page after the other
ConcatRows(k) ==
    IF k = 0 THEN <<>> ELSE ConcatRows(k - 1) \o ListingPage(k).rows

\* the ordinal an id of the form DOC-<digits> carries
OrdinalOf(id) == ParseOrdinal(id).val

MaxSmallOrd == 12

MaxDigits == 5

RECURSIVE Pow10(_)
Pow10(k) == IF k = 0 THEN 1 ELSE 10 * Pow10(k - 1)

SampleOrdinals ==
    (1..MaxSmallOrd) \cup
    UNION { { Pow10(k) - 1, Pow10(k), Pow10(k) + 1 } : k \in 1..MaxDigits }

\* two ordinals are about to be formatted
InitRoundTrip ==
    /\ ReconcilerInit
    /\ RegenOff
    /\ RaceOff
    /\ PipelineOff
    /\ ContentOff
    /\ FetchOff
    /\ RendererOff
    /\ AssemblerOff
    /\ IndexOff
    /\ ord_pair \in SampleOrdinals \X SampleOrdinals
    /\ ids = <<>>
    /\ parsed = <<>>
    /\ tpc = "format"

\* lines 67-69
FormatIds ==
    /\ tpc = "format"
    /\ ids' = <<generate_doc_id(ord_pair[1]), generate_doc_id(ord_pair[2])>>
    /\ tpc' = "parse"
    /\ UNCHANGED <<ord_pair, parsed>>
    /\ UNCHANGED outside_roundtrip

\* lines 183-188: int(existing_doc_id.split('-')[1]) inside try/except
ParseIds ==
    /\ tpc = "parse"
    /\ parsed' = <<ParseOrdinal(ids[1]), ParseOrdinal(ids[2])>>
    /\ tpc' = "done"
    /\ UNCHANGED <<ord_pair, ids>>
    /\ UNCHANGED outside_roundtrip

NextRoundTrip ==
    \/ FormatIds
    \/ ParseIds

SpecRoundTrip == InitRoundTrip /\ [][NextRoundTrip]_vars

\* C28: the ordinal the reconciler parses from generate_doc_id(n) is n, for
\* ordinals of up to four digits and of more; and two distinct ordinals
\* format to two distinct ids.
C28_RoundTrip ==
    /\ tpc = "done" =>
           \A k \in 1..2 : parsed[k].ok /\ parsed[k].val = ord_pair[k]
    /\ (tpc \in {"parse", "done"} /\ ord_pair[1] # ord_pair[2]) =>
           ids[1] # ids[2]

\* 9999 and 10000: DOC-9999 and DOC-10000, parsed back to 9999 and 10000
C28_Witness ==
    /\ tpc = "done"
    /\ ord_pair = <<9999, 10000>>
    /\ Len(ids[1]) = 8
    /\ Len(ids[2]) = 9
    /\ parsed[2].val = 10000

\* ======================================================================
\* Collection fetch: NotionSync.fetch_all_pages
\* (src/sync/notion_sync.py, lines 106-128)
\* ======================================================================

\* most response pages of the remote, and most items on one of them
MaxChain == 3

MaxPageItems == 2

\* Python's None for start_cursor; the cursor to response page k is k
NoCursor == 0

\* the remote's chains: 1..MaxChain response pages, each a list of items;
\* the items are numbered through, (page, place)
Chains ==
    UNION { { [ k \in 1..n |-> [ j \in 1..sz[k] |-> <<k, j>> ] ] :
              sz \in [1..n -> 0..MaxPageItems] } : n \in 1..MaxChain }

\* lines 115-118: what the remote answers to a query with this cursor
databases_query(ch, cursor) ==
    LET k == IF cursor = NoCursor THEN 1 ELSE cursor
    IN  [ results |-> ch[k],
          has_more |-> k < Len(ch),
          next_cursor |-> IF k < Len(ch) THEN k + 1 ELSE NoCursor ]

\* variant: the cursor of the response is dropped
NextCursor_Dropped(response) == NoCursor

\* line 121: response.get('next_cursor')
NextCursor(response) == response.next_cursor

\* lines 110-112
InitFetch ==
    /\ ReconcilerInit
    /\ RegenOff
    /\ RaceOff
    /\ PipelineOff
    /\ ContentOff
    /\ RendererOff
    /\ AssemblerOff
    /\ IndexOff
    /\ RoundTripOff
    /\ chain \in Chains
    /\ all_pages = <<>>
    /\ has_more = TRUE
    /\ start_cursor = NoCursor
    /\ queries = <<>>
    /\ fpc = "loop"

\* lines 114-121: one query that is answered
Query ==
    /\ fpc = "loop"
    /\ has_more
    /\ LET response == databases_query(chain, start_cursor)
       IN  /\ all_pages' = all_pages \o response.results
           /\ has_more' = response.has_more
           /\ start_cursor' = NextCursor(response)
    /\ queries' = Append(queries, start_cursor)
    /\ UNCHANGED <<chain, fpc>>
    /\ UNCHANGED outside_fetch

\* lines 122-124: the query raises and fetch_all_pages raises again
QueryRaises ==
    /\ fpc = "loop"
    /\ has_more
    /\ queries' = Append(queries, start_cursor)
    /\ fpc' = "raised"
    /\ UNCHANGED <<chain, all_pages, has_more, start_cursor>>
    /\ UNCHANGED outside_fetch

\* lines 114, 126-128: the loop ends and all_pages is returned
FetchReturn ==
    /\ fpc = "loop"
    /\ ~has_more
    /\ fpc' = "returned"
    /\ UNCHANGED <<chain, all_pages, has_more, start_cursor, queries>>
    /\ UNCHANGED outside_fetch

NextFetch ==
    \/ Query
    \/ QueryRaises
    \/ FetchReturn

SpecFetch == InitFetch /\ [][NextFetch]_vars

\* the process keeps running: a step that can be taken is taken
SpecFetchLive == SpecFetch /\ WF_vars(NextFetch)

RECURSIVE Flatten(_)
\* the items of a chain, page after page
Flatten(ch) == IF ch = <<>> THEN <<>> ELSE Head(ch) \o Flatten(Tail(ch))

\* the queries a chain of n pages calls for: no cursor, then 2, 3, .., n
CursorSequence(n) == [ k \in 1..n |-> IF k = 1 THEN NoCursor ELSE k ]

\* what C23 says of one state
C23_Protocol ==
    /\ fpc # "off" =>
           /\ Len(queries) <= Len(chain)
           /\ queries = CursorSequence(Len(queries))
    /\ (fpc = "loop" /\ queries # <<>>) =>
           (has_more <=> Len(queries) < Len(chain))
    /\ fpc = "returned" =>
           /\ Len(queries) = Len(chain)
           /\ all_pages = Flatten(chain)
           /\ \A a, b \in 1..Len(all_pages) :
                  all_pages[a] = all_pages[b] => a = b

\* C23: the first query carries no cursor and every later one the cursor of
\* the response before it; the loop goes on exactly while the last response
\* reported more pages; what is returned is the items of all response pages
\* in response order, each once; and against a remote that serves a finite
\* chain of pages the fetch comes to an end.
C23_CursorContinuation == [](C23_Protocol) /\ <>(fpc # "loop")

\* three response pages fetched with the cursors None, 2, 3
C23_Witness ==
    /\ fpc = "returned"
    /\ Len(chain) = 3
    /\ queries = <<NoCursor, 2, 3>>
    /\ Len(all_pages) = 2 * 3

\* ======================================================================
\* Content fetch: NotionSync.fetch_page_blocks and fetch_and_cache_content
\* (src/sync/notion_sync.py, lines 246-305)
\* ======================================================================

\* published records, blocks below them, and list calls that may raise
NumRecords == 2

MaxTreeBlocks == 3

MaxListFaults == 1

\* the page ids of the records, and the ids of all nodes
Records == 1..NumRecords

Nodes == 1..(NumRecords + MaxTreeBlocks)

\* the children of node b in the order the remote lists them: the nodes
\* whose parent is b, ascending or descending
KidsOf(par, b, asc) ==
    LET ks == { k \in DOMAIN par : par[k] = b }
        n == Cardinality(ks)
        up == [ r \in 1..n |->
                  CHOOSE k \in ks : Cardinality({ x \in ks : x < k }) = r - 1 ]
    IN  IF asc THEN up ELSE [ r \in 1..n |-> up[n + 1 - r] ]

\* the remote's content: every block hangs below a record or below a block
\* with a smaller id; listings come in pages of one or two blocks
Trees ==
    { [ kids |-> [ b \in Nodes |-> KidsOf(par, b, asc) ], psize |-> s ] :
        par \in { f \in [ (Nodes \ Records) -> Nodes ] :
                    \A k \in DOMAIN f : f[k] < k },
        asc \in BOOLEAN, s \in 1..2 }

\* number of listing pages of node b: at least one, possibly empty
NumListPages(t, b) ==
    IF t.kids[b] = <<>> THEN 1
    ELSE (Len(t.kids[b]) + t.psize - 1) \div t.psize

\* a block as the remote returns it (no children attached)
BlockOf(t, b) ==
    [ id |-> b, has_children |-> t.kids[b] # <<>>, children |-> <<>> ]

\* the blocks on listing page k of node b
ListPage(t, b, k) ==
    LET lo == (k - 1) * t.psize + 1
        hi == IF k * t.psize <= Len(t.kids[b]) THEN k * t.psize
              ELSE Len(t.kids[b])
    IN  [ r \in 1..(hi - lo + 1) |-> BlockOf(t, t.kids[b][lo + r - 1]) ]

\* lines 254-257: what the remote answers
blocks_children_list(t, block_id, cursor) ==
    LET k == IF cursor = NoCursor THEN 1 ELSE cursor
    IN  [ results |-> ListPage(t, block_id, k),
          has_more |-> k < NumListPages(t, block_id),
          next_cursor |-> IF k < NumListPages(t, block_id) THEN k + 1
                          ELSE NoCursor ]

\* lines 248-250: the locals of a call of fetch_page_blocks
Frame(block_id) ==
    [ block_id |-> block_id, blocks |-> <<>>, has_more |-> TRUE,
      start_cursor |-> NoCursor, fetched_blocks |-> <<>>, j |-> 1,
      resp_more |-> FALSE, resp_cursor |-> NoCursor, at |-> "while" ]

Top == stack[Len(stack)]

SetTop(f) == [stack EXCEPT ![Len(stack)] = f]

FaultsSoFar == Cardinality({ c \in 1..Len(list_calls) : ~list_calls[c].ok })

\* fetch_and_cache_content is called with all records published
InitContent ==
    /\ ReconcilerInit
    /\ RegenOff
    /\ RaceOff
    /\ PipelineOff
    /\ RendererOff
    /\ AssemblerOff
    /\ IndexOff
    /\ RoundTripOff
    /\ FetchOff
    /\ tree \in Trees
    /\ cdocs = [ k \in 1..NumRecords |->
                   [page_id |-> k, doc_id |-> generate_doc_id(k)] ]
    /\ ci = 1
    /\ cache = <<>>
    /\ stack = <<>>
    /\ ret = <<>>
    /\ list_calls = <<>>
    /\ cpc = "docs"

\* lines 280-285: the next document, fetch_page_blocks(page_id) is entered
StartDoc ==
    /\ cpc = "docs"
    /\ ci <= Len(cdocs)
    /\ stack' = <<Frame(cdocs[ci].page_id)>>
    /\ cpc' = "blocks"
    /\ UNCHANGED <<tree, cdocs, ci, cache, ret, list_calls>>
    /\ UNCHANGED outside_content

\* lines 252-258: the listing is answered
ListChildren ==
    /\ cpc = "blocks"
    /\ Top.at = "while"
    /\ Top.has_more
    /\ LET response == blocks_children_list(tree, Top.block_id,
                                            Top.start_cursor)
       IN  stack' = SetTop([Top EXCEPT
                                !.fetched_blocks = response.results,
                                !.j = 1,
                                !.resp_more = response.has_more,
                                !.resp_cursor = response.next_cursor,
                                !.at = "for"])
    /\ list_calls' = Append(list_calls,
                            [block_id |-> Top.block_id,
                             cursor |-> Top.start_cursor, ok |-> TRUE])
    /\ UNCHANGED <<tree, cdocs, ci, cache, ret, cpc>>
    /\ UNCHANGED outside_content

\* variant: what was collected is thrown away on a failure
Break_Empty(frame) == [frame EXCEPT !.blocks = <<>>, !.at = "return"]

\* lines 270-272: log and break, the loop is left with blocks as it is
Break(frame) == [frame EXCEPT !.at = "return"]

\* lines 254-257 raise, lines 270-272 log and break
ListRaises ==
    /\ cpc = "blocks"
    /\ Top.at = "while"
    /\ Top.has_more
    /\ FaultsSoFar < MaxListFaults
    /\ stack' = SetTop(Break(Top))
    /\ list_calls' = Append(list_calls,
                            [block_id |-> Top.block_id,
                             cursor |-> Top.start_cursor, ok |-> FALSE])
    /\ UNCHANGED <<tree, cdocs, ci, cache, ret, cpc>>
    /\ UNCHANGED outside_content

\* lines 261-264: a block with children, fetch_page_blocks(block['id'])
EnterChild ==
    /\ cpc = "blocks"
    /\ Top.at = "for"
    /\ Top.j <= Len(Top.fetched_blocks)
    /\ Top.fetched_blocks[Top.j].has_children
    /\ stack' = Append(stack, Frame(Top.fetched_blocks[Top.j].id))
    /\ UNCHANGED <<tree, cdocs, ci, cache, ret, list_calls, cpc>>
    /\ UNCHANGED outside_content

\* lines 261-262: a block without children
SkipLeaf ==
    /\ cpc = "blocks"
    /\ Top.at = "for"
    /\ Top.j <= Len(Top.fetched_blocks)
    /\ ~Top.fetched_blocks[Top.j].has_children
    /\ stack' = SetTop([Top EXCEPT !.j = Top.j + 1])
    /\ UNCHANGED <<tree, cdocs, ci, cache, ret, list_calls, cpc>>
    /\ UNCHANGED outside_content

\* lines 267-269: the page is done
ExtendBlocks ==
    /\ cpc = "blocks"
    /\ Top.at = "for"
    /\ Top.j > Len(Top.fetched_blocks)
    /\ stack' = SetTop([Top EXCEPT
                            !.blocks = Top.blocks \o Top.fetched_blocks,
                            !.has_more = Top.resp_more,
                            !.start_cursor = Top.resp_cursor,
                            !.fetched_blocks = <<>>,
                            !.at = "while"])
    /\ UNCHANGED <<tree, cdocs, ci, cache, ret, list_calls, cpc>>
    /\ UNCHANGED outside_content

\* variant: the returned blocks are not stored in the block
Attached_Dropped(parent, child_blocks) == [parent EXCEPT !.j = parent.j + 1]

\* the frame below the top with the returned blocks attached (line 265)
Attached(parent, child_blocks) ==
    [parent EXCEPT !.fetched_blocks[parent.j].children = child_blocks,
                   !.j = parent.j + 1]

\* line 274: return blocks, to the call of line 264 or to line 285
ReturnBlocks ==
    /\ cpc = "blocks"
    /\ \/ Top.at = "while" /\ ~Top.has_more
       \/ Top.at = "return"
    /\ IF Len(stack) > 1
       THEN /\ stack' = [ SubSeq(stack, 1, Len(stack) - 1) EXCEPT
                            ![Len(stack) - 1] =
                                Attached(stack[Len(stack) - 1], Top.blocks) ]
            /\ UNCHANGED <<ret, cpc>>
       ELSE /\ stack' = <<>>
            /\ ret' = Top.blocks
            /\ cpc' = "cache"
    /\ UNCHANGED <<tree, cdocs, ci, cache, list_calls>>
    /\ UNCHANGED outside_content

\* lines 287-300: the snapshot is written
CacheDoc ==
    /\ cpc = "cache"
    /\ cache' = WriteFile(cache, cdocs[ci].doc_id,
                          [doc_id |-> cdocs[ci].doc_id,
                           page_id |-> cdocs[ci].page_id, blocks |-> ret])
    /\ ci' = ci + 1
    /\ cpc' = "docs"
    /\ UNCHANGED <<tree, cdocs, stack, ret, list_calls>>
    /\ UNCHANGED outside_content

\* lines 287-305: building or writing the snapshot raises; log, continue
CacheRaises ==
    /\ cpc = "cache"
    /\ ci' = ci + 1
    /\ cpc' = "docs"
    /\ UNCHANGED <<tree, cdocs, cache, stack, ret, list_calls>>
    /\ UNCHANGED outside_content

\* the loop over the documents is over
ContentDone ==
    /\ cpc = "docs"
    /\ ci > Len(cdocs)
    /\ cpc' = "done"
    /\ UNCHANGED <<tree, cdocs, ci, cache, stack, ret, list_calls>>
    /\ UNCHANGED outside_content

NextContent ==
    \/ StartDoc
    \/ ListChildren
    \/ ListRaises
    \/ EnterChild
    \/ SkipLeaf
    \/ ExtendBlocks
    \/ ReturnBlocks
    \/ CacheDoc
    \/ CacheRaises
    \/ ContentDone

SpecContent == InitContent /\ [][NextContent]_vars

\* ----------------------------------------------------------------------
\* Vocabulary for the content fetch claims
\* ----------------------------------------------------------------------

\* the cursor that asks for listing page k
CursorOf(k) == IF k = 1 THEN NoCursor ELSE k

\* the listings (block, cursor) that have raised so far
FailedLists ==
    { <<list_calls[c].block_id, list_calls[c].cursor>> :
        c \in { x \in 1..Len(list_calls) : ~list_calls[x].ok } }

RECURSIVE Subtree(_, _, _)
\* what the source holds below node b from listing page k on, read page by
\* page and child by child, up to the first page of b whose listing is in F
Subtree(b, k, F) ==
    IF <<b, CursorOf(k)>> \in F THEN <<>>
    ELSE LET page == ListPage(tree, b, k)
         IN  [ r \in 1..Len(page) |->
                 [ page[r] EXCEPT !.children =
                     IF page[r].has_children
                     THEN Subtree(page[r].id, 1, F) ELSE <<>> ] ]
             \o (IF k < NumListPages(tree, b) THEN Subtree(b, k + 1, F)
                 ELSE <<>>)

RECURSIVE ListingsBelow(_, _, _), ListingsOfPage(_, _, _)
\* the listings a depth-first walk makes below node b from page k on: the
\* page, then the whole subtree of each of its blocks in turn, then the
\* next page
ListingsBelow(b, k, F) ==
    <<[block_id |-> b, cursor |-> CursorOf(k)]>>
    \o (IF <<b, CursorOf(k)>> \in F THEN <<>>
        ELSE ListingsOfPage(ListPage(tree, b, k), 1, F)
             \o (IF k < NumListPages(tree, b) THEN ListingsBelow(b, k + 1, F)
                 ELSE <<>>))

ListingsOfPage(page, r, F) ==
    IF r > Len(page) THEN <<>>
    ELSE (IF page[r].has_children THEN ListingsBelow(page[r].id, 1, F)
          ELSE <<>>)
         \o ListingsOfPage(page, r + 1, F)

RECURSIVE ListingsOfDocs(_, _)
\* the listings of the documents 1..d, one document after the other
ListingsOfDocs(d, F) ==
    IF d = 0 THEN <<>>
    ELSE ListingsOfDocs(d - 1, F) \o ListingsBelow(cdocs[d].page_id, 1, F)

\* the listings made so far, without their outcome
ListingsMade ==
    [ c \in 1..Len(list_calls) |->
        [block_id |-> list_calls[c].block_id, cursor |-> list_calls[c].cursor] ]

\* C24: a listing that raises ends only the call it was made in: what the
\* outermost call returns for a record is the source's tree cut at the
\* failed listings (a block whose listing failed keeps the blocks of its
\* earlier pages, later siblings and later pages of the parent are there in
\* full); the call never raises, so every record's fetch is made and every
\* snapshot written holds that tree.
C24_SubtreeContained ==
    /\ cpc = "cache" => ret = Subtree(cdocs[ci].page_id, 1, FailedLists)
    /\ cpc = "done" =>
           \A d \in 1..Len(cdocs) :
               /\ \E c \in 1..Len(list_calls) :
                      list_calls[c].block_id = cdocs[d].page_id
               /\ cdocs[d].doc_id \in DOMAIN cache =>
                      cache[cdocs[d].doc_id].blocks =
                          Subtree(cdocs[d].page_id, 1, FailedLists)

\* the second listing page of a block below the first record raised: the
\* block keeps the child of its first page, and the second record was
\* fetched and cached all the same
C24_Witness ==
    /\ cpc = "done"
    /\ \E c \in 1..Len(list_calls) :
           /\ ~list_calls[c].ok
           /\ list_calls[c].block_id \notin Records
           /\ list_calls[c].cursor = 2
    /\ generate_doc_id(1) \in DOMAIN cache
    /\ \E r \in 1..Len(cache[generate_doc_id(1)].blocks) :
           Len(cache[generate_doc_id(1)].blocks[r].children) = 1
    /\ generate_doc_id(2) \in DOMAIN cache

\* C29: the listings are made in depth-first order: at every moment those
\* made so far are the beginning of the walk that lists a page, then the
\* whole subtree of each of its blocks with children in turn, then the next
\* page; and when no listing has raised, the blocks returned for a record
\* are the source's tree, every block with its children attached, in the
\* order of the source.
C29_DepthFirst ==
    /\ cpc \in {"docs", "blocks", "cache", "done"} =>
           LET walk == ListingsOfDocs(IF ci <= Len(cdocs) THEN ci
                                      ELSE Len(cdocs), FailedLists)
           IN  /\ Len(ListingsMade) <= Len(walk)
               /\ ListingsMade = SubSeq(walk, 1, Len(ListingsMade))
    /\ (cpc = "cache" /\ FailedLists = {}) =>
           ret = Subtree(cdocs[ci].page_id, 1, {})

\* a block with a child, listed on the first of two pages: its subtree is
\* listed before the second page of its parent
C29_Witness ==
    /\ cpc = "cache"
    /\ FailedLists = {}
    /\ Len(list_calls) = 3
    /\ list_calls[1].block_id \in Records
    /\ list_calls[2].block_id \notin Records
    /\ list_calls[3].block_id = list_calls[1].block_id
    /\ list_calls[3].cursor = 2
    /\ Len(ret) = 2
    /\ Len(ret[1].children) = 1

\* ======================================================================
\* The pipeline: main (src/sync/main.py, lines 67-128) over the store, the
\* remote, the cache and the public directory, run after run
\* ======================================================================

\* pipeline runs, top-level errors and per-record failures in one behaviour
MaxRuns == 3

MaxFatal == 1

MaxRecordFaults == 1

\* what main holds in its hands outside the pipeline's own variables
shared_vars ==
    <<counter_file, doc_mapping_file, remote, pages, processed_docs,
      published_docs, published_file, public_files, cache>>

\* fetch_all_pages against the remote as it is: every page, with its DOC_ID
\* field and its PUBLISH checkbox
FetchedBatch ==
    [ k \in 1..NumPages |->
        [id |-> k, doc_id |-> remote[k], publish |-> publish[k],
         fault |-> "none"] ]

RECURSIVE ProcessBatch(_, _, _, _)
\* process_pages lines 159-221 over the batch from page k on; wb tells
\* whether the remote accepts the write-backs of this run
ProcessBatch(batch, k, st, wb) ==
    IF k > Len(batch) THEN st
    ELSE LET page == batch[k]
             branch == Branch(page.id, page.doc_id, st.doc_mapping)
             c1 == NextCounter(branch, st.counter, page.doc_id)
             m1 == NextMapping(branch, st.doc_mapping, c1, page.id,
                               page.doc_id)
             calls == UpdateCalls(branch, m1, page.id)
             doc_data == [page_id |-> page.id, doc_id |-> Get(m1, page.id),
                          publish |-> page.publish]
         IN  ProcessBatch(batch, k + 1,
                 [ counter |-> c1,
                   doc_mapping |-> m1,
                   remote |-> IF calls = <<>> THEN st.remote
                              ELSE update_notion_doc_id(st.remote, calls[1],
                                                        wb),
                   processed_docs |-> Append(st.processed_docs, doc_data),
                   published_docs |->
                       IF page.publish
                       THEN Append(st.published_docs, doc_data)
                       ELSE st.published_docs ], wb)

DotHtml == <<".", "h", "t", "m", "l">>

\* f"{doc_id}.html" (html_renderer.py line 124)
DocFile(doc_id) == doc_id \o DotHtml

\* pathlib's stem: the name without its last suffix
Stem(name) == SubSeq(name, 1, Len(name) - Len(DotHtml))

\* variant: every .html file of the directory is a candidate
GlobDoc_Any(name) ==
    /\ Len(name) >= Len(DotHtml)
    /\ SubSeq(name, Len(name) - Len(DotHtml) + 1, Len(name)) = DotHtml

\* glob("DOC-*.html") (html_renderer.py line 987)
GlobDoc(name) ==
    /\ Len(name) >= 4 + Len(DotHtml)
    /\ SubSeq(name, 1, 4) = <<"D", "O", "C", "-">>
    /\ SubSeq(name, Len(name) - Len(DotHtml) + 1, Len(name)) = DotHtml

\* the doc ids of a manifest
IdsOf(list) == { list[k].doc_id : k \in 1..Len(list) }

\* html_renderer.py lines 979-992: the files cleanup removes
Revoked(dir, published_ids) ==
    { f \in DOMAIN dir : GlobDoc(f) /\ Stem(f) \notin published_ids }

RECURSIVE WritePages(_, _, _, _)
\* html_renderer.py lines 645-660: the listing pages p..n written to fs
WritePages(fs, list, p, n) ==
    IF p > n THEN fs
    ELSE WritePages(WriteFile(fs, OutputFile(p),
                              _build_homepage_html(PageDocs(list, p), p, n)),
                    list, p + 1, n)

\* every page exists, unpublished and without a DOC_ID; nothing has run
InitPipeline ==
    /\ ReconcilerInit
    /\ RegenOff
    /\ RaceOff
    /\ RendererOff
    /\ AssemblerOff
    /\ IndexOff
    /\ RoundTripOff
    /\ FetchOff
    /\ ContentOff
    /\ publish = [p \in Pages |-> FALSE]
    /\ mpc = "idle"
    /\ exit_code = -1
    /\ trace = <<>>
    /\ runs = 0
    /\ fatals = 0
    /\ rec_faults = 0
    /\ ri = 1
    /\ success_count = 0
    /\ error_count = 0
    /\ docs_dir = <<>>
    /\ search_index = <<>>

own_idle == <<mpc, exit_code, trace, runs, fatals, rec_faults, ri,
              success_count, error_count, docs_dir, search_index>>

\* between two runs somebody ticks or clears a PUBLISH checkbox
TogglePublish ==
    /\ mpc = "idle"
    /\ \E p \in Pages : publish' = [publish EXCEPT ![p] = ~publish[p]]
    /\ UNCHANGED own_idle
    /\ UNCHANGED shared_vars
    /\ UNCHANGED outside_pipeline

\* between two runs somebody types a DOC_ID into a page the store does not
\* know yet, or clears it
TypeDocId ==
    /\ mpc = "idle"
    /\ \E p \in Pages, v \in ExternalIds \cup {Empty} :
           /\ p \notin DOMAIN load_doc_mapping
           /\ remote[p] # v
           /\ remote' = [remote EXCEPT ![p] = v]
    /\ UNCHANGED <<publish, own_idle>>
    /\ UNCHANGED <<counter_file, doc_mapping_file, pages, published_docs,
                   published_file, public_files, cache>>
    /\ UNCHANGED processed_docs
    /\ UNCHANGED outside_pipeline

\* variant: the error is logged and main returns as after a full run
Exit1_Zero(cause) ==
    /\ fatals < MaxFatal
    /\ fatals' = fatals + 1
    /\ trace' = Append(trace, cause)
    /\ exit_code' = 0
    /\ mpc' = "idle"

\* the top-level error: main logs what went wrong and calls sys.exit(1)
\* (lines 89-91 and 126-128)
Exit1(cause) ==
    /\ fatals < MaxFatal
    /\ fatals' = fatals + 1
    /\ trace' = Append(trace, cause)
    /\ exit_code' = 1
    /\ mpc' = "idle"

\* the phase is over and the next begins
Advance(phase, next) ==
    /\ trace' = Append(trace, phase)
    /\ mpc' = next
    /\ UNCHANGED <<exit_code, fatals>>

\* main is started (lines 67-80): a new process, with nothing in its hands
StartRun ==
    /\ mpc = "idle"
    /\ runs < MaxRuns
    /\ runs' = runs + 1
    /\ mpc' = "credentials"
    /\ trace' = <<>>
    /\ exit_code' = -1
    /\ pages' = <<>>
    /\ processed_docs' = <<>>
    /\ published_docs' = <<>>
    /\ ri' = 1
    /\ success_count' = 0
    /\ error_count' = 0
    /\ UNCHANGED <<publish, fatals, rec_faults, docs_dir, search_index>>
    /\ UNCHANGED <<counter_file, doc_mapping_file, remote, published_file,
                   public_files, cache>>
    /\ UNCHANGED outside_pipeline

\* lines 82-91: both settings are there, or main exits with 1
LoadCredentials ==
    /\ mpc = "credentials"
    /\ \/ /\ mpc' = "fetch"
          /\ UNCHANGED <<exit_code, fatals, trace>>
       \/ Exit1("no credentials")
    /\ UNCHANGED <<publish, runs, rec_faults, ri, success_count,
                   error_count, docs_dir, search_index>>
    /\ UNCHANGED shared_vars
    /\ UNCHANGED outside_pipeline

\* line 96: fetch_all_pages returns the batch, or raises
FetchPhase ==
    /\ mpc = "fetch"
    /\ \/ /\ pages' = FetchedBatch
          /\ Advance("fetch", "reconcile")
       \/ /\ Exit1("fetch failed")
          /\ UNCHANGED pages
    /\ UNCHANGED <<publish, runs, rec_faults, ri, success_count, error_count,
                   docs_dir, search_index>>
    /\ UNCHANGED <<counter_file, doc_mapping_file, remote, published_docs,
                   published_file, public_files, cache>>
    /\ UNCHANGED processed_docs
    /\ UNCHANGED outside_pipeline

\* line 97: process_pages (notion_sync.py lines 151-244) runs through
ReconcilePhase ==
    /\ mpc = "reconcile"
    /\ \E wb \in BOOLEAN :
         LET st == ProcessBatch(pages, 1,
                       [ counter |-> load_counter,
                         doc_mapping |-> load_doc_mapping,
                         remote |-> remote,
                         processed_docs |-> <<>>,
                         published_docs |-> <<>> ], wb)
         IN  /\ remote' = st.remote
             /\ counter_file' = <<st.counter>>
             /\ doc_mapping_file' = <<st.doc_mapping>>
             /\ processed_docs' = st.processed_docs
             /\ published_docs' = st.published_docs
             /\ published_file' = <<st.published_docs>>
    /\ Advance("reconcile", "cache")
    /\ ri' = 1
    /\ UNCHANGED <<publish, runs, rec_faults, success_count, error_count,
                   docs_dir, search_index>>
    /\ UNCHANGED <<pages, public_files, cache>>
    /\ UNCHANGED outside_pipeline

\* line 97: a store file cannot be read (notion_sync.py lines 153-154) or
\* written (lines 224-225), or a manifest cannot be written (lines 236-240);
\* what was done before the error stays done
ReconcileRaises ==
    /\ mpc = "reconcile"
    /\ \E at \in {"load", "save", "manifest"}, wb \in BOOLEAN :
         LET st == ProcessBatch(pages, 1,
                       [ counter |-> load_counter,
                         doc_mapping |-> load_doc_mapping,
                         remote |-> remote,
                         processed_docs |-> <<>>,
                         published_docs |-> <<>> ], wb)
         IN  /\ remote' = IF at = "load" THEN remote ELSE st.remote
             /\ counter_file' = IF at = "manifest" THEN <<st.counter>>
                                 ELSE counter_file
             /\ doc_mapping_file' = IF at = "manifest"
                                     THEN <<st.doc_mapping>>
                                     ELSE doc_mapping_file
             /\ Exit1(IF at = "manifest" THEN "manifest failed"
                       ELSE "store failed")
    /\ UNCHANGED <<publish, runs, rec_faults, ri, success_count, error_count,
                   docs_dir, search_index>>
    /\ UNCHANGED <<pages, published_docs, published_file, public_files,
                   cache>>
    /\ UNCHANGED processed_docs
    /\ UNCHANGED outside_pipeline

\* variant: the exception leaves the loop
AfterFailure_Break(k, n) == n + 1

\* the except clause of a per-record loop logs and goes on with the next
\* record (notion_sync.py lines 303-305, html_renderer.py lines 91-93)
AfterFailure(k, n) == k + 1

\* line 98, notion_sync.py lines 280-305: the snapshot of the next
\* published record is written, or the attempt raises and is logged
CacheRecord ==
    /\ mpc = "cache"
    /\ ri <= Len(published_docs)
    /\ \/ /\ cache' = WriteFile(cache, published_docs[ri].doc_id,
                                [doc_id |-> published_docs[ri].doc_id,
                                 page_id |-> published_docs[ri].page_id,
                                 run |-> runs])
          /\ ri' = ri + 1
          /\ UNCHANGED rec_faults
       \/ /\ rec_faults < MaxRecordFaults
          /\ rec_faults' = rec_faults + 1
          /\ ri' = AfterFailure(ri, Len(published_docs))
          /\ UNCHANGED cache
    /\ UNCHANGED <<publish, mpc, exit_code, trace, runs, fatals,
                   success_count, error_count, docs_dir, search_index>>
    /\ UNCHANGED <<counter_file, doc_mapping_file, remote, pages,
                   published_docs, published_file, public_files>>
    /\ UNCHANGED processed_docs
    /\ UNCHANGED outside_pipeline

\* fetch_and_cache_content returns
CacheDone ==
    /\ mpc = "cache"
    /\ ri > Len(published_docs)
    /\ Advance("cache", "render")
    /\ ri' = 1
    /\ success_count' = 0
    /\ error_count' = 0
    /\ UNCHANGED <<publish, runs, rec_faults, docs_dir, search_index>>
    /\ UNCHANGED shared_vars
    /\ UNCHANGED outside_pipeline

\* html_renderer.py lines 88-93 and 97-128: the next record of the
\* manifest; render_document raises when the snapshot is missing (line
\* 101) or for a reason of its own
RenderRecord ==
    /\ mpc = "render"
    /\ ri <= Len(published_file[1])
    /\ LET doc_id == published_file[1][ri].doc_id
       IN  \/ /\ doc_id \in DOMAIN cache
              /\ docs_dir' = WriteFile(docs_dir, DocFile(doc_id),
                                       [doc_id |-> doc_id,
                                        snapshot |-> cache[doc_id].run,
                                        run |-> runs])
              /\ success_count' = success_count + 1
              /\ ri' = ri + 1
              /\ UNCHANGED <<error_count, rec_faults>>
           \/ /\ doc_id \notin DOMAIN cache
              /\ error_count' = error_count + 1
              /\ ri' = AfterFailure(ri, Len(published_file[1]))
              /\ UNCHANGED <<docs_dir, success_count, rec_faults>>
           \/ /\ doc_id \in DOMAIN cache
              /\ rec_faults < MaxRecordFaults
              /\ rec_faults' = rec_faults + 1
              /\ error_count' = error_count + 1
              /\ ri' = AfterFailure(ri, Len(published_file[1]))
              /\ UNCHANGED <<docs_dir, success_count>>
    /\ UNCHANGED <<publish, mpc, exit_code, trace, runs, fatals,
                   search_index>>
    /\ UNCHANGED shared_vars
    /\ UNCHANGED outside_pipeline

\* render_all_documents returns (html_renderer.py line 95)
RenderDone ==
    /\ mpc = "render"
    /\ ri > Len(published_file[1])
    /\ Advance("render", "index")
    /\ UNCHANGED <<publish, runs, rec_faults, ri, success_count, error_count,
                   docs_dir, search_index>>
    /\ UNCHANGED shared_vars
    /\ UNCHANGED outside_pipeline

\* line 104: generate_homepage (html_renderer.py lines 627-660) writes the
\* listing pages, or raises on the first write
IndexPhase ==
    /\ mpc = "index"
    /\ \/ /\ LET list == SortDesc(published_file[1])
             IN  public_files' =
                     WritePages(public_files, list, 1, TotalPages(Len(list)))
          /\ Advance("index", "search")
       \/ /\ Exit1("index failed")
          /\ UNCHANGED public_files
    /\ UNCHANGED <<publish, runs, rec_faults, ri, success_count, error_count,
                   docs_dir, search_index>>
    /\ UNCHANGED <<counter_file, doc_mapping_file, remote, pages,
                   published_docs, published_file, cache>>
    /\ UNCHANGED processed_docs
    /\ UNCHANGED outside_pipeline

\* line 108: generate_search_index (html_renderer.py lines 945-972) writes
\* search-index.json, or raises on the write
SearchPhase ==
    /\ mpc = "search"
    /\ \/ /\ search_index' =
                 <<[ k \in 1..Len(published_file[1]) |->
                       published_file[1][k].doc_id ]>>
          /\ Advance("search", "cleanup")
       \/ /\ Exit1("search failed")
          /\ UNCHANGED search_index
    /\ UNCHANGED <<publish, runs, rec_faults, ri, success_count, error_count,
                   docs_dir>>
    /\ UNCHANGED shared_vars
    /\ UNCHANGED outside_pipeline

\* line 112: cleanup_revoked_documents (html_renderer.py lines 974-994),
\* then lines 114-124: main returns; or the manifest cannot be read (line
\* 981) and main exits with 1
CleanupPhase ==
    /\ mpc = "cleanup"
    /\ \/ /\ LET gone == Revoked(docs_dir, IdsOf(published_file[1]))
             IN  docs_dir' = [ f \in DOMAIN docs_dir \ gone |-> docs_dir[f] ]
          /\ trace' = Append(trace, "cleanup")
          /\ mpc' = "idle"
          /\ exit_code' = 0
          /\ UNCHANGED fatals
       \/ /\ Exit1("cleanup failed")
          /\ UNCHANGED docs_dir
    /\ UNCHANGED <<publish, runs, rec_faults, ri, success_count,
                   error_count, search_index>>
    /\ UNCHANGED shared_vars
    /\ UNCHANGED outside_pipeline

NextPipeline ==
    \/ TogglePublish
    \/ TypeDocId
    \/ StartRun
    \/ LoadCredentials
    \/ FetchPhase
    \/ ReconcilePhase
    \/ ReconcileRaises
    \/ CacheRecord
    \/ CacheDone
    \/ RenderRecord
    \/ RenderDone
    \/ IndexPhase
    \/ SearchPhase
    \/ CleanupPhase

SpecPipeline == InitPipeline /\ [][NextPipeline]_vars

\* ----------------------------------------------------------------------
\* Claims over the pipeline
\* ----------------------------------------------------------------------

\* a run has gone through all its phases and main has returned
RunCompleted == mpc = "idle" /\ exit_code = 0

\* the document pages on disk
PagesOnDisk == { Stem(f) : f \in DOMAIN docs_dir }

\* C22: orphan cleanup -- once cleanup_revoked_documents has run, every
\* document page on disk belongs to a record of the published manifest
\* (cleanup deletes exactly the pages whose id is not in the manifest).
C22_OrphanCleanup ==
    RunCompleted => PagesOnDisk \subseteq IdsOf(published_file[1])

\* the phases of a run, in the order of main's calls (lines 96-112)
PhaseOrder ==
    <<"fetch", "reconcile", "cache", "render", "index", "search", "cleanup">>

\* the first k phases
Finished(k) == SubSeq(PhaseOrder, 1, k)

\* the errors the specification names as fatal
NamedErrors == {"no credentials", "fetch failed", "store failed"}

\* every error that reaches main's except clause or its credentials test
Causes ==
    NamedErrors
        \cup {"manifest failed", "index failed", "search failed",
              "cleanup failed"}

\* how many phases are over when the error comes
DoneBefore(cause) ==
    CASE cause \in {"no credentials", "fetch failed"} -> 0
      [] cause \in {"store failed", "manifest failed"} -> 1
      [] cause = "index failed" -> 4
      [] cause = "search failed" -> 5
      [] cause = "cleanup failed" -> 6

\* a run is at its k-th phase exactly when the k-1 phases before it are over
\* and none after it has begun
InOrder ==
    /\ mpc = "credentials" => trace = <<>> /\ exit_code = -1
    /\ \A k \in 1..Len(PhaseOrder) :
           mpc = PhaseOrder[k] => trace = Finished(k - 1) /\ exit_code = -1

\* a run that ended with a non-zero code ended at its error: the phases
\* before it are over, no later one was begun
Aborted ==
    (mpc = "idle" /\ exit_code = 1)
        => \E c \in Causes : trace = Append(Finished(DoneBefore(c)), c)

\* the run that has ended met none of the errors the specification names
NoNamedError ==
    /\ mpc = "idle"
    /\ runs > 0
    /\ \A k \in 1..Len(trace) : trace[k] \notin NamedErrors

\* C25 as stated: the phases run in order, a named error ends the run with a
\* non-zero code before any later phase, and a run in which no named error
\* occurs exits with code 0.
C25_Original ==
    /\ InOrder
    /\ Aborted
    /\ NoNamedError => exit_code = 0

\* the pages and listings are written by the render, index, search and
\* cleanup phases only, and the step that ends a run with an error writes
\* none
C25_Step ==
    /\ <<docs_dir, public_files, search_index>>'
           # <<docs_dir, public_files, search_index>>
         => mpc \in {"render", "index", "search", "cleanup"}
    /\ exit_code' = 1 /\ exit_code # 1
         => UNCHANGED <<docs_dir, public_files, search_index, cache,
                        published_file>>

\* C25 (amended): strictly ordered phases and fatal aborts -- the phases of
\* a run execute in the order fetch, reconcile, cache, render, index,
\* search, cleanup, each after the one before has finished; an error that
\* escapes a phase (missing credentials, a failed fetch, a store or manifest
\* file that cannot be read or written, a failed index, search index or
\* cleanup) ends the run with a non-zero code and no later phase runs; a
\* run exits with code 0 exactly when all seven phases have finished.
C25_PhasesAndAborts ==
    /\ [](/\ InOrder
          /\ Aborted
          /\ exit_code \in {-1, 0, 1}
          /\ (mpc = "idle" /\ exit_code = 0) => trace = PhaseOrder
          /\ (mpc = "idle" /\ exit_code = -1) => runs = 0)
    /\ [][C25_Step]_vars

\* a run in which the credentials, the fetch and the store were fine ended
\* with a non-zero code, four phases done and the index not written
C25_Witness ==
    /\ mpc = "idle"
    /\ exit_code = 1
    /\ trace = Append(Finished(4), "index failed")
    /\ docs_dir # <<>>

\* the records the store knows whose id is not in the manifest
Unpublished ==
    { p \in DOMAIN load_doc_mapping :
          load_doc_mapping[p] \notin IdsOf(published_file[1]) }

\* after a full run no unpublished record has a rendered page
PageRemoved ==
    RunCompleted
        => \A p \in Unpublished :
               DocFile(load_doc_mapping[p]) \notin DOMAIN docs_dir

\* no step deletes a snapshot or deletes or changes a mapping entry
NothingForgotten ==
    /\ DOMAIN cache \subseteq DOMAIN cache'
    /\ \A p \in DOMAIN load_doc_mapping :
           /\ p \in DOMAIN load_doc_mapping'
           /\ load_doc_mapping'[p] = load_doc_mapping[p]

\* every record of the manifest is listed, and so rendered, under the id of
\* its mapping entry
SameId ==
    published_file # <<>>
        => \A k \in 1..Len(published_file[1]) :
               /\ published_file[1][k].page_id \in DOMAIN load_doc_mapping
               /\ published_file[1][k].doc_id
                      = load_doc_mapping[published_file[1][k].page_id]

\* C26: unpublish/republish lifecycle -- the run after a record is
\* unpublished removes its rendered page, its mapping entry and its snapshot
\* are kept (nothing deletes either), and a record published again is
\* rendered under the same public id as before.
C26_Lifecycle ==
    /\ [](PageRemoved /\ SameId)
    /\ [][NothingForgotten]_vars


\* the snapshot of the id was written in the current run
CachedNow(doc_id) == doc_id \in DOMAIN cache /\ cache[doc_id].run = runs

\* the page of the id was written in the current run
RenderedNow(doc_id) ==
    DocFile(doc_id) \in DOMAIN docs_dir /\ docs_dir[DocFile(doc_id)].run = runs

\* the records among the first n of the list that the current run has not
\* cached, or not rendered
NotCached(list, n) == { k \in 1..n : ~CachedNow(list[k].doc_id) }

NotRendered(list, n) == { k \in 1..n : ~RenderedNow(list[k].doc_id) }

\* the render loop is over
Rendered == mpc \in {"index", "search", "cleanup"} \/ RunCompleted

\* C27: per-record render and cache failures are isolated -- each loop goes
\* through every record once whatever happened to the ones before: the
\* records left without a snapshot are at most the failures, the records
\* left without a page are at most the errors counted, and when
\* render_all_documents returns success count + error count is the number
\* of manifest records.
C27_Isolated ==
    /\ mpc = "cache"
         => /\ ri \in 1..(Len(published_docs) + 1)
            /\ Cardinality(NotCached(published_docs, ri - 1)) <= rec_faults
    /\ mpc = "render"
         => /\ ri \in 1..(Len(published_file[1]) + 1)
            /\ success_count + error_count = ri - 1
            /\ Cardinality(NotRendered(published_file[1], ri - 1))
                   <= error_count
            /\ Cardinality(NotCached(published_docs, Len(published_docs)))
                   <= rec_faults
    /\ Rendered
         => /\ success_count + error_count = Len(published_file[1])
            /\ Cardinality(NotRendered(published_file[1],
                                       Len(published_file[1])))
                   <= error_count

\* a run over two published records is through: the first failed to render
\* and was counted as an error, the second was rendered after it
C27_Witness ==
    /\ RunCompleted
    /\ Len(published_file[1]) = 2
    /\ error_count = 1
    /\ success_count = 1
    /\ ~RenderedNow(published_file[1][1].doc_id)
    /\ RenderedNow(published_file[1][2].doc_id)

\* ======================================================================
\* Two pipeline instances over one local store: process_pages
\* (notion_sync.py lines 151-225) run by each, step by step, with nothing
\* between them but the two files
\* ======================================================================

Inst == 1..2

\* the pages an instance may find in the database when it fetches: any of
\* them, in any order
RaceBatches ==
    { b \in UNION { [1..n -> Pages] : n \in 1..NumPages } :
          \A j, k \in 1..Len(b) : j # k => b[j] # b[k] }

\* variant: the entries the file holds and the new mapping lacks are kept
Overwrite_Merged(old, new) ==
    IF old = <<>> THEN <<new>>
    ELSE <<[ p \in DOMAIN old[1] \cup DOMAIN new |->
               IF p \in DOMAIN new THEN new[p] ELSE old[1][p] ]>>

\* save_doc_mapping, open(file, 'w') and json.dump (lines 64-65): the
\* file holds the new mapping and nothing of the old
Overwrite(old, new) == <<new>>

InitRace ==
    /\ ReconcilerInit
    /\ RegenOff
    /\ RendererOff
    /\ AssemblerOff
    /\ IndexOff
    /\ RoundTripOff
    /\ FetchOff
    /\ ContentOff
    /\ PipelineOff
    /\ inst = [ n \in Inst |->
                  [at |-> "fetch", batch |-> <<>>, c0 |-> 0,
                   m0 |-> EmptyMapping, counter |-> 0,
                   doc_mapping |-> EmptyMapping] ]

\* main.py line 96: the instance fetches its batch from the remote as it is
RaceFetch(n) ==
    /\ inst[n].at = "fetch"
    /\ \E b \in RaceBatches :
         inst' = [inst EXCEPT
                    ![n].at = "load_counter",
                    ![n].batch = [ k \in 1..Len(b) |->
                                     [id |-> b[k], doc_id |-> remote[b[k]],
                                      publish |-> TRUE, fault |-> "none"] ]]
    /\ UNCHANGED <<counter_file, doc_mapping_file, remote>>
    /\ UNCHANGED outside_race

\* line 153
RaceLoadCounter(n) ==
    /\ inst[n].at = "load_counter"
    /\ inst' = [inst EXCEPT ![n].at = "load_mapping",
                            ![n].c0 = load_counter,
                            ![n].counter = load_counter]
    /\ UNCHANGED <<counter_file, doc_mapping_file, remote>>
    /\ UNCHANGED outside_race

\* line 154
RaceLoadMapping(n) ==
    /\ inst[n].at = "load_mapping"
    /\ inst' = [inst EXCEPT ![n].at = "loop",
                            ![n].m0 = load_doc_mapping,
                            ![n].doc_mapping = load_doc_mapping]
    /\ UNCHANGED <<counter_file, doc_mapping_file, remote>>
    /\ UNCHANGED outside_race

\* lines 159-221: the loop over the batch; it reads and writes the
\* instance's own counter and mapping and writes ids back to the remote
RaceLoop(n) ==
    /\ inst[n].at = "loop"
    /\ \E wb \in BOOLEAN :
         LET st == ProcessBatch(inst[n].batch, 1,
                       [ counter |-> inst[n].counter,
                         doc_mapping |-> inst[n].doc_mapping,
                         remote |-> remote,
                         processed_docs |-> <<>>,
                         published_docs |-> <<>> ], wb)
         IN  /\ inst' = [inst EXCEPT ![n].at = "save_counter",
                                     ![n].counter = st.counter,
                                     ![n].doc_mapping = st.doc_mapping]
             /\ remote' = st.remote
    /\ UNCHANGED <<counter_file, doc_mapping_file>>
    /\ UNCHANGED outside_race

\* line 224
RaceSaveCounter(n) ==
    /\ inst[n].at = "save_counter"
    /\ counter_file' = <<inst[n].counter>>
    /\ inst' = [inst EXCEPT ![n].at = "save_mapping"]
    /\ UNCHANGED <<doc_mapping_file, remote>>
    /\ UNCHANGED outside_race

\* line 225
RaceSaveMapping(n) ==
    /\ inst[n].at = "save_mapping"
    /\ doc_mapping_file' = Overwrite(doc_mapping_file, inst[n].doc_mapping)
    /\ inst' = [inst EXCEPT ![n].at = "done"]
    /\ UNCHANGED <<counter_file, remote>>
    /\ UNCHANGED outside_race

NextRace ==
    \/ \E n \in Inst : RaceFetch(n)
    \/ \E n \in Inst : RaceLoadCounter(n)
    \/ \E n \in Inst : RaceLoadMapping(n)
    \/ \E n \in Inst : RaceLoop(n)
    \/ \E n \in Inst : RaceSaveCounter(n)
    \/ \E n \in Inst : RaceSaveMapping(n)

SpecRace == InitRace /\ [][NextRace]_vars

\* both instances have saved
BothDone == \A n \in Inst : inst[n].at = "done"

\* the two instances loaded the same counter and the same mapping, and
\* neither batch carried an id from the remote
SameStart ==
    /\ inst[1].c0 = inst[2].c0
    /\ inst[1].m0 = inst[2].m0
    /\ \A n \in Inst : \A k \in 1..Len(inst[n].batch) :
           inst[n].batch[k].doc_id = Empty

\* the pages for which instance n minted an id, in the order of its batch
MintedBy(n) ==
    LET IsNew(page) == page.id \notin DOMAIN inst[n].m0
        new == SelectSeq(inst[n].batch, IsNew)
    IN  [ k \in 1..Len(new) |-> new[k].id ]

\* C30: no locking between instances -- when two instances have run
\* process_pages over the same store, each file holds what the last
\* instance to save it wrote and nothing else (the entries only the other
\* instance had are gone), and two instances that loaded the same counter
\* and mapping have given the k-th new record of each the same id, the
\* loaded counter plus k, whichever records these are.
C30_NoLocking ==
    BothDone
        => /\ \E n \in Inst : counter_file = <<inst[n].counter>>
           /\ \E n \in Inst : doc_mapping_file = <<inst[n].doc_mapping>>
           /\ SameStart
                => \A n \in Inst : \A k \in 1..Len(MintedBy(n)) :
                       inst[n].doc_mapping[MintedBy(n)[k]]
                           = generate_doc_id(inst[n].c0 + k)

\* both instances have saved: two distinct records carry the same freshly
\* minted id, in the instances' mappings and on the remote, and the entry
\* of one of them is not in the mapping file
C30_Witness ==
    /\ BothDone
    /\ SameStart
    /\ \E p, q \in Pages :
           /\ p # q
           /\ p \in DOMAIN inst[1].doc_mapping
           /\ q \in DOMAIN inst[2].doc_mapping
           /\ inst[1].doc_mapping[p] = generate_doc_id(1)
           /\ inst[2].doc_mapping[q] = generate_doc_id(1)
           /\ remote[p] = remote[q]
           /\ remote[p] = generate_doc_id(1)
           /\ p \notin DOMAIN doc_mapping_file[1]

\* ----------------------------------------------------------------------
\* Claims over the order of the formatted ids
\* ----------------------------------------------------------------------

\* C38: the order the Index Builder sorts by, Python's comparison of the
\* formatted id strings, agrees with the numeric order of the ordinals: for
\* ordinals m < n the id of m is smaller than the id of n, also when n has
\* more digits than the padding (9999 and 10000).
C38_OrderAgrees ==
    (tpc \in {"parse", "done"} /\ ord_pair[1] < ord_pair[2])
        => StrLess(ids[1], ids[2])

\* ----------------------------------------------------------------------
\* Claims over the reconciler across runs
\* ----------------------------------------------------------------------

\* the counter c is at least the ordinal of every well-formed id of m
Dominates(c, m) ==
    \A p \in DOMAIN m : ParseOrdinal(m[p]).ok => c >= ParseOrdinal(m[p]).val

\* the step mints an id for pages[i]
Mints ==
    /\ Decides
    /\ Branch(pages[i].id, pages[i].doc_id, doc_mapping) = "mint"

\* the id minted is new to the mapping and its ordinal is above the ordinal
\* of every well-formed id the mapping holds when it is minted
MintedAbove ==
    Mints
        => /\ doc_mapping'[pages[i].id] = generate_doc_id(counter')
           /\ \A q \in DOMAIN doc_mapping :
                  /\ doc_mapping[q] # doc_mapping'[pages[i].id]
                  /\ ParseOrdinal(doc_mapping[q]).ok
                         => ParseOrdinal(doc_mapping[q]).val < counter'

\* C31: the counter dominates the mapping -- from an empty store, after any
\* sequence of runs, stopped ones included, the persisted counter is at
\* least the ordinal of every well-formed id in the persisted mapping, and
\* so is the counter of a run with respect to its mapping; hence an id is
\* minted strictly above, and never equal to, every id the mapping holds at
\* that moment.
C31_CounterDominates ==
    /\ [](/\ Dominates(load_counter, load_doc_mapping)
          /\ InRun => Dominates(counter, doc_mapping))
    /\ [][MintedAbove]_vars

\* a run stopped between the two writes and burnt DOC-0001; the run after
\* it has minted DOC-0002 and persisted counter 2
C31_Witness ==
    /\ pc = "returned"
    /\ crashes = 1
    /\ load_counter = 2
    /\ \E p \in DOMAIN load_doc_mapping :
           load_doc_mapping[p] = generate_doc_id(2)
    /\ \A p \in DOMAIN load_doc_mapping :
           load_doc_mapping[p] # generate_doc_id(1)

\* the records of the batch that came with an id in their remote field and
\* had no entry in the mapping the run loaded
Recovered ==
    { k \in 1..Len(pages) :
          /\ pages[k].fault # "early"
          /\ pages[k].id \notin DOMAIN loaded.mapping
          /\ pages[k].doc_id # Empty }

\* C32: crash recovery keeps the id -- when the remote fields are written by
\* the reconciler only, a record with an id in its remote field and no
\* mapping entry is one for which an earlier run minted the id, wrote it
\* back and stopped before the mapping was persisted; the next run that
\* processes the record gives it that same id, persists it in the mapping
\* and persists a counter at least as large as the id's ordinal.
C32_CrashRecovery ==
    pc = "returned"
        => \A k \in Recovered :
               /\ crashes > 0
               /\ \E n \in 1..load_counter :
                      pages[k].doc_id = generate_doc_id(n)
               /\ load_doc_mapping[pages[k].id] = pages[k].doc_id
               /\ pages[k].fault = "none"
                      => \E j \in 1..Len(processed_docs) :
                             /\ processed_docs[j].page_id = pages[k].id
                             /\ processed_docs[j].doc_id = pages[k].doc_id

\* a run minted DOC-0001, wrote it back and stopped with nothing persisted;
\* the run after it, started from counter 0 and an empty mapping, has given
\* the record DOC-0001 again and persisted a counter of at least 1
C32_Witness ==
    /\ pc = "returned"
    /\ crashes = 1
    /\ loaded.counter = 0
    /\ loaded.mapping = EmptyMapping
    /\ load_counter >= 1
    /\ \E k \in Recovered :
           /\ pages[k].doc_id = generate_doc_id(1)
           /\ load_doc_mapping[pages[k].id] = generate_doc_id(1)

\* ======================================================================
\* Convergence: the reconciler run again and again over a database whose
\* set of pages does not change and whose DOC_ID fields it alone writes
\* ======================================================================

\* main.py lines 96-97 and process_pages lines 153-157 when the database
\* holds every page in every run: the batch is all of them, in the order
\* the query returns them
BeginFullRun ==
    /\ BeginRun
    /\ Len(pages') = NumPages

\* the write-back for page p succeeds (lines 133-147)
WriteBackOk(p) ==
    /\ ProcessPage
    /\ pages[i].id = p
    /\ Len(updates') = Len(updates) + 1
    /\ updates'[Len(updates')].ok

NextConverge ==
    \/ BeginFullRun
    \/ ProcessPage
    \/ save_counter
    \/ save_doc_mapping
    \/ Return
    \/ Crash

\* the runs follow each other for ever, and a write-back that is tried
\* again and again succeeds in the end
SpecConverge ==
    /\ Init
    /\ [][NextConverge]_vars
    /\ WF_vars(NextConverge)
    /\ \A p \in Pages : SF_vars(WriteBackOk(p))

\* every record has a mapping entry and its remote field holds it
Steady ==
    \A p \in Pages :
        p \in DOMAIN load_doc_mapping /\ remote[p] = load_doc_mapping[p]

\* the step changes neither store file nor the remote and makes no call of
\* update_notion_doc_id
Quiet ==
    /\ UNCHANGED <<counter_file, doc_mapping_file, remote>>
    /\ updates' = updates \/ updates' = <<>>

\* the run has read record p and come to its id decision (lines 161-169
\* did not raise)
ReadOk(p) == \E k \in Decided : pages[k].id = p

CarriesMappingId(list) ==
    \A k \in 1..Len(list) :
        /\ list[k].page_id \in DOMAIN load_doc_mapping
        /\ list[k].doc_id = load_doc_mapping[list[k].page_id]
        /\ list[k].doc_id # UNASSIGNED

FirstPageIds ==
    LET first_page == PageDocs(SortDesc(published_file[1]), 1)
    IN  [ r \in 1..Len(first_page) |-> first_page[r].doc_id ]

\* C35: after a complete pipeline run the landing page index.html is the
\* one generated from that run's manifest: it lists exactly the first page
\* of the records now published, and when none is published it is the
\* empty listing and no longer shows the records of an earlier run.
C35_LandingPage ==
    RunCompleted
        => /\ IndexHtml \in DOMAIN public_files
           /\ public_files[IndexHtml].rows = FirstPageIds

\* ======================================================================
\* The Index Builder called again: generate_homepage
\* (html_renderer.py lines 627-660) in a later run, over the listing files
\* the runs before it left in public/
\* ======================================================================

\* calls of generate_homepage after the first
MaxRegen == 1

\* main.py line 104 in the next run: the manifest is the one that run's
\* process_pages wrote, the files under public/ are as they were left
Regenerate ==
    /\ ipc = "done"
    /\ published_file # <<>>
    /\ homepage_runs < MaxRegen
    /\ homepage_runs' = homepage_runs + 1
    /\ \E m \in Manifests : published_file' = <<m>>
    /\ ipc' = "start"
    /\ docs' = <<>>
    /\ total_pages' = 0
    /\ page_num' = 1
    /\ UNCHANGED public_files
    /\ UNCHANGED outside_regen

NextReindex ==
    \/ _create_empty_homepage
    \/ LoadDocs
    \/ WritePage
    \/ HomepageDone
    \/ Regenerate

SpecReindex == InitIndex /\ [][NextReindex]_vars

\* the numbered listing files on disk
NumberedOnDisk == DOMAIN public_files \ {IndexHtml}

\* C36: after any sequence of runs the listing artifacts on disk are
\* index.html and page-2.html .. page-N.html for the current page count N:
\* a numbered page written by an earlier run with more pages does not
\* survive a run with fewer, and no listing artifact lists a record that is
\* no longer published.
C36_ListingArtifacts ==
    (ipc = "done" /\ published_file # <<>>)
        => /\ NumberedOnDisk
                 = { PageHtml(k) :
                       k \in 2..TotalPages(Len(published_file[1])) }
           /\ \A f \in DOMAIN public_files :
                  \A r \in 1..Len(public_files[f].rows) :
                      public_files[f].rows[r] \in IdsOf(published_file[1])

\* C37: no dangling index links -- after a complete pipeline run every
\* record listed on a listing page, and every entry of the search index,
\* has its rendered document page on disk under its public id, also when
\* its caching or rendering failed in this run and when it was published
\* for the first time in this run.
C37_NoDanglingLinks ==
    RunCompleted
        => /\ \A f \in DOMAIN public_files :
                  \A r \in 1..Len(public_files[f].rows) :
                      DocFile(public_files[f].rows[r]) \in DOMAIN docs_dir
           /\ search_index # <<>>
                  => \A k \in 1..Len(search_index[1]) :
                         DocFile(search_index[1][k]) \in DOMAIN docs_dir

====
